---- MODULE Spec2Model ----
(***************************************************************************)
(* A model of the Orbio OpenClaw plugin (orbio-openclaw-plugin/src/index.ts *)
(* as carried in src/orbio-openclaw-plugin/skills/orbio/SKILL.md, lines     *)
(* 35..859): the minute-window limiter, the HTTP client's retry loop, the   *)
(* capabilities cache, the field selection, the command parser,             *)
(* the renderers, the error mapper and the four guarded tool handlers.      *)
(*                                                                          *)
(* Time is in milliseconds.  JavaScript runs a handler synchronously        *)
(* between two awaits, so the model moves time only at the suspension       *)
(* points (a fetch in flight, a backoff sleep) and between invocations.     *)
(***************************************************************************)
EXTENDS Integers, Sequences, FiniteSets, TLC

VARIABLES
    api,                \* what the host passed to registerOrbioPlugin
    registered,         \* the tools registered with the host
    startupError,       \* the message registerOrbioPlugin threw, or NULL
    parseInput,         \* the raw string handed to parseCommand on its own
    parseResult,        \* what parseCommand returned for it
    failure,            \* a failing response handed to request() on its own,
                        \* and the error request() threw for it
    errorMessage,       \* what errorText returned for that error
    twin,               \* a second handler and its request(): of a second plugin
                        \* instance, or of an overlapping invocation of this one
    cfg,                \* OrbioPluginConfig, as readConfig returned it
    now,                \* Date.now()
    events,             \* MinuteWindowLimiter.events: key -> timestamps
    checkLog,           \* history: every limiter.check made on its own
    capabilitiesCache,  \* registerOrbioPlugin's capabilitiesCache
    invocations,        \* number of tool invocations started so far
    pc,                 \* the handler's position: idle, caps, main, done
    call,               \* the invocation in progress (tool, arguments, ...)
    capsFrom,           \* history: where this invocation took its capabilities
    sel,                \* chooseOutputFields' result for this invocation
    outcome,            \* what the handler delivered: a ToolResult or a throw
    sent,               \* history: the fetch calls of this invocation, and
                        \* when each settled
    exportLog,          \* history: the requests doExport built on its own
    req,                \* request(): method, path, body, extraHeaders
    attempt,            \* request(): the loop index
    rpc,                \* request(): none, fetching, sleeping, returned, thrown
    fetches,            \* history: fetch calls of the current request()
    sleeps,             \* history: backoff delays of the current request()
    outcomes,           \* history: how each attempt of the current request() ended
    reqResult,          \* request(): the payload returned or the error thrown
    timers              \* pending setTimeout timers

vars == <<api, registered, startupError, parseInput, parseResult, failure,
          errorMessage, twin,
          cfg, now, events, checkLog, capabilitiesCache, invocations, pc, call,
          capsFrom, sel, outcome, sent, exportLog, req, attempt, rpc, fetches,
          sleeps, outcomes, reqResult, timers>>

startupVars == <<api, registered, startupError>>
parserVars == <<parseInput, parseResult>>
textVars == <<failure, errorMessage>>
limiterVars == <<events, checkLog>>
handlerVars == <<capabilitiesCache, invocations, pc, call, capsFrom, sel, outcome>>
requestVars == <<req, attempt, rpc, fetches, sleeps, outcomes, reqResult, timers>>

(***************************************************************************)
(* Bounds of the model.                                                     *)
(***************************************************************************)
\* how many checks the limiter-only specification makes
MaxChecks == 4
\* the largest maxRequestsPerMinute the limiter-only specification configures
MaxLimit == 2
\* how many tool invocations the plugin specification starts
MaxInvocations == 2
\* how many words follow the action word of a command
MaxWords == 2
\* how many units (a flag with its value, or a query word) a command has
MaxUnits == 2
\* the most export requests doExport builds on its own
MaxExports == 2

(***************************************************************************)
(* JavaScript values.                                                       *)
(***************************************************************************)
\* null / undefined where a string is expected (a header, an error code)
NULL == "<null>"

Max(a, b) == IF a >= b THEN a ELSE b
Min(a, b) == IF a <= b THEN a ELSE b

\* Math.floor in place of Math.ceil
CeilDivRoundsDown(a, b) == a \div b
\* Math.ceil(a / b) for a >= 0, b > 0
CeilDiv(a, b) == (a + b - 1) \div b

\* a JavaScript number given in tenths (25 is 2.5), or undefined
Num10(v) == [t |-> "number", v10 |-> v]
Undefined == [t |-> "undefined", v10 |-> 0]

\* Math.floor of a number given in tenths
Floor10(v10) == v10 \div 10

\* the members of a sequence
Range(s) == {s[i] : i \in 1..Len(s)}

(***************************************************************************)
(* MinuteWindowLimiter                                                      *)
(***************************************************************************)
WINDOW_MS == 60000

\* the filter left out: nothing is pruned
KeptWithoutPruning(current, t) == current

\* current.filter((ts) => ts >= cutoff)
Kept(current, t) == SelectSeq(current, LAMBDA ts : ts >= t - WINDOW_MS)

\* check with one list for all keys: an admission is recorded under every key
checkRecordsUnderEveryKey(evts, key, limit, t) ==
    LET kept == Kept(evts[key], t)
        oldest == IF Len(kept) > 0 THEN kept[1] ELSE t
        retryAfterMs == Max(1, WINDOW_MS - (t - oldest))
    IN  IF Len(kept) >= limit
        THEN [ok |-> FALSE, retryAfterSec |-> CeilDiv(retryAfterMs, 1000),
              events |-> evts]
        ELSE [ok |-> TRUE, retryAfterSec |-> 0,
              events |-> [k \in DOMAIN evts |->
                             IF k = key THEN Append(kept, t) ELSE Append(evts[k], t)]]
\* check that admits without recording the admission
checkWithoutAppend(evts, key, limit, t) ==
    LET kept == Kept(evts[key], t)
        oldest == IF Len(kept) > 0 THEN kept[1] ELSE t
        retryAfterMs == Max(1, WINDOW_MS - (t - oldest))
    IN  IF Len(kept) >= limit
        THEN [ok |-> FALSE, retryAfterSec |-> CeilDiv(retryAfterMs, 1000),
              events |-> evts]
        ELSE [ok |-> TRUE, retryAfterSec |-> 0, events |-> evts]
\* limiter.check(key, limit) at time t on the stored map evts: whether it
\* returned (ok) or threw PluginRateLimitError(retryAfterSec), and the map after
checkOffByOne(evts, key, limit, t) ==
    LET kept == Kept(evts[key], t)
        oldest == IF Len(kept) > 0 THEN kept[1] ELSE t
        retryAfterMs == Max(1, WINDOW_MS - (t - oldest))
    IN  IF Len(kept) > limit
        THEN [ok |-> FALSE, retryAfterSec |-> CeilDiv(retryAfterMs, 1000),
              events |-> evts]
        ELSE [ok |-> TRUE, retryAfterSec |-> 0,
              events |-> [evts EXCEPT ![key] = Append(kept, t)]]
check(evts, key, limit, t) ==
    LET kept == Kept(evts[key], t)
        oldest == IF Len(kept) > 0 THEN kept[1] ELSE t
        retryAfterMs == Max(1, WINDOW_MS - (t - oldest))
    IN  IF Len(kept) >= limit
        THEN [ok |-> FALSE, retryAfterSec |-> CeilDiv(retryAfterMs, 1000),
              events |-> evts]
        ELSE [ok |-> TRUE, retryAfterSec |-> 0,
              events |-> [evts EXCEPT ![key] = Append(kept, t)]]

(***************************************************************************)
(* readConfig                                                               *)
(***************************************************************************)
DEFAULT_TIMEOUT_MS == 20000
DEFAULT_MAX_REQUESTS_PER_MINUTE == 30
DEFAULT_RETRY_COUNT == 1
MAX_RETRY_COUNT == 3
DEFAULT_RETRY_BACKOFF_MS == 300
DEFAULT_CAPABILITIES_TTL_MS == 60000

\* typeof value !== "number" || !Number.isFinite(value) || value <= 0
parsePositiveInt(value, fallback) ==
    IF value.t # "number" \/ value.v10 <= 0 THEN fallback ELSE Floor10(value.v10)

parseNonNegativeInt(value, fallback) ==
    IF value.t # "number" \/ value.v10 < 0 THEN fallback ELSE Floor10(value.v10)

\* the numeric and identity part of readConfig, for a raw config whose baseUrl
\* and apiKey are present
readConfig(raw) ==
    [workspaceId          |-> raw.workspaceId,
     timeoutMs            |-> parsePositiveInt(raw.timeoutMs, DEFAULT_TIMEOUT_MS),
     maxRequestsPerMinute |-> parsePositiveInt(raw.maxRequestsPerMinute,
                                               DEFAULT_MAX_REQUESTS_PER_MINUTE),
     retryCount           |-> Min(MAX_RETRY_COUNT,
                                  parseNonNegativeInt(raw.retryCount, DEFAULT_RETRY_COUNT)),
     retryBackoffMs       |-> parsePositiveInt(raw.retryBackoffMs, DEFAULT_RETRY_BACKOFF_MS),
     capabilitiesTtlMs    |-> parsePositiveInt(raw.capabilitiesTtlMs,
                                               DEFAULT_CAPABILITIES_TTL_MS)]

\* a raw plugin config: the values the host passes in api.config
RawConfig(retryCount, maxPerMinute, timeoutMs, backoffMs, ttlMs) ==
    [baseUrl |-> "https://api.orbio.test", apiKey |-> "test-key",
     workspaceId |-> "workspace-1", timeoutMs |-> timeoutMs,
     maxRequestsPerMinute |-> maxPerMinute, retryCount |-> retryCount,
     retryBackoffMs |-> backoffMs, capabilitiesTtlMs |-> ttlMs]

\* the api object: its config and its env; an absent member is NULL
NoEnv == [ORBIO_BASE_URL |-> NULL, ORBIO_API_KEY |-> NULL]
Api(config, env) == [config |-> config, env |-> env]

\* a ?? b
Coalesce(a, b) == IF a = NULL THEN b ELSE a

\* String.prototype.trim on the credentials the model uses
TrimCredential(s) == IF s \in {" ", "   "} THEN "" ELSE s

\* readConfig without the trim: a blank credential counts as given
readConfigErrorUntrimmed(a) ==
    LET baseUrl == Coalesce(Coalesce(a.config.baseUrl, a.env.ORBIO_BASE_URL), "")
        apiKey == Coalesce(Coalesce(a.config.apiKey, a.env.ORBIO_API_KEY), "")
    IN  IF baseUrl = "" THEN "Missing plugin config: baseUrl"
        ELSE IF apiKey = "" THEN "Missing plugin config: apiKey"
        ELSE NULL
\* the mandatory part of readConfig: the message of the Error it throws, or
\* NULL when baseUrl and apiKey are both there
readConfigError(a) ==
    LET baseUrl == TrimCredential(Coalesce(Coalesce(a.config.baseUrl,
                                                    a.env.ORBIO_BASE_URL), ""))
        apiKey == TrimCredential(Coalesce(Coalesce(a.config.apiKey,
                                                   a.env.ORBIO_API_KEY), ""))
    IN  IF baseUrl = "" THEN "Missing plugin config: baseUrl"
        ELSE IF apiKey = "" THEN "Missing plugin config: apiKey"
        ELSE NULL

(***************************************************************************)
(* Tools and limiter keys                                                   *)
(***************************************************************************)
Tools == {"orbio_search", "orbio_export", "orbio_export_status", "orbio_command"}

\* `${cfg.workspaceId}:${toolName}`
LimiterKey(workspaceId, toolName) == workspaceId \o ":" \o toolName

Keys == {LimiterKey("workspace-1", t) : t \in Tools}

(***************************************************************************)
(* JSON values and response bodies                                          *)
(***************************************************************************)
\* JSON.parse results: null, or an object as a record of its properties
JsonNull == [t |-> "null"]
EmptyObject == [t |-> "object"]

\* property access: undefined properties read as the given default
Get(o, f, d) == IF f \in DOMAIN o THEN o[f] ELSE d

\* a response body: its text is empty, blank, not JSON, or the JSON of value;
\* or it is broken: response.text() rejects with a TypeError (the connection
\* dropped while the body was streamed)
Body(raw, value) == [raw |-> raw, value |-> value]
JsonBody(value) == Body("json", value)

\* OrbioHttpClient.parseJsonSafe: null unless the text is non-blank valid JSON
parseJsonSafe(body) == IF body.raw = "json" THEN body.value ELSE JsonNull

DEFAULT_PROBLEM_DETAIL == "Orbio API returned an error."

\* a JSON string as a property value; other property values are numbers
\* (Num10), null (JsonNull), arrays and objects
StringValue(str) == [t |-> "string", s |-> str]
EmptyArray == [t |-> "array"]

\* typeof value === "string" ? value : fallback
StringOr(value, fallback) == IF value.t = "string" THEN value.s ELSE fallback

\* parseProblem without the fallback of the nested code to the top-level code
parseProblemNestedCodeOnly(payload) ==
    IF payload.t \notin {"object", "array"}
    THEN [code |-> NULL, detail |-> DEFAULT_PROBLEM_DETAIL]
    ELSE LET directCode == StringOr(Get(payload, "code", Undefined), NULL)
             directDetail == StringOr(Get(payload, "detail", Undefined), NULL)
             nested == Get(payload, "error", Undefined)
         IN  IF nested.t \in {"object", "array"}
             THEN LET nestedCode == StringOr(Get(nested, "code", Undefined), NULL)
                      nestedMessage == StringOr(Get(nested, "message", Undefined),
                                                directDetail)
                  IN  [code |-> nestedCode,
                       detail |-> IF nestedMessage # NULL THEN nestedMessage
                                  ELSE DEFAULT_PROBLEM_DETAIL]
             ELSE [code |-> directCode,
                   detail |-> IF directDetail # NULL THEN directDetail
                              ELSE DEFAULT_PROBLEM_DETAIL]

\* parseProblem(payload): {code, detail}; typeof is "object" for arrays too,
\* whose code, detail and error properties are undefined
parseProblem(payload) ==
    IF payload.t \notin {"object", "array"}
    THEN [code |-> NULL, detail |-> DEFAULT_PROBLEM_DETAIL]
    ELSE LET directCode == StringOr(Get(payload, "code", Undefined), NULL)
             directDetail == StringOr(Get(payload, "detail", Undefined), NULL)
             nested == Get(payload, "error", Undefined)
         IN  IF nested.t \in {"object", "array"}
             THEN LET nestedCode == StringOr(Get(nested, "code", Undefined), NULL)
                      nestedMessage == StringOr(Get(nested, "message", Undefined),
                                                directDetail)
                  IN  [code |-> IF nestedCode # NULL THEN nestedCode ELSE directCode,
                       detail |-> IF nestedMessage # NULL THEN nestedMessage
                                  ELSE DEFAULT_PROBLEM_DETAIL]
             ELSE [code |-> directCode,
                   detail |-> IF directDetail # NULL THEN directDetail
                              ELSE DEFAULT_PROBLEM_DETAIL]

(***************************************************************************)
(* Field policy                                                             *)
(***************************************************************************)
SAFE_DEFAULT_FIELDS ==
    <<"cnpj", "legal_name", "trade_name", "uf", "municipality_ibge", "cnae_primary",
      "company_size_code", "registration_status", "started_at", "has_email",
      "has_phone">>

CONTACT_FIELDS ==
    <<"email", "phone1", "area_code1", "phone2", "area_code2", "street_type",
      "street", "street_number", "address_complement", "neighborhood",
      "postal_code">>

NO_SAFE_FIELDS_MESSAGE == "No safe output fields are allowed for this plan."

\* chooseOutputFields(allowlist, withContact): it throws Error(message), or
\* returns {fields, contactGranted}
chooseOutputFieldsUnfiltered(allowlist, withContact) ==
    LET safe == SelectSeq(SAFE_DEFAULT_FIELDS, LAMBDA f : f \in allowlist)
    IN  IF Len(safe) = 0
        THEN [threw |-> TRUE, message |-> NO_SAFE_FIELDS_MESSAGE,
              fields |-> <<>>, contactGranted |-> FALSE]
        ELSE IF ~withContact
        THEN [threw |-> FALSE, message |-> "", fields |-> safe, contactGranted |-> FALSE]
        ELSE [threw |-> FALSE, message |-> "", fields |-> safe \o CONTACT_FIELDS,
              contactGranted |-> TRUE]
chooseOutputFieldsContactAlone(allowlist, withContact) ==
    LET safe == SelectSeq(SAFE_DEFAULT_FIELDS, LAMBDA f : f \in allowlist)
        contact == SelectSeq(CONTACT_FIELDS, LAMBDA f : f \in allowlist)
    IN  IF Len(safe) = 0 /\ ~(withContact /\ Len(contact) > 0)
        THEN [threw |-> TRUE, message |-> NO_SAFE_FIELDS_MESSAGE,
              fields |-> <<>>, contactGranted |-> FALSE]
        ELSE IF ~withContact
        THEN [threw |-> FALSE, message |-> "", fields |-> safe, contactGranted |-> FALSE]
        ELSE IF Len(contact) = 0
        THEN [threw |-> FALSE, message |-> "", fields |-> safe, contactGranted |-> FALSE]
        ELSE [threw |-> FALSE, message |-> "", fields |-> safe \o contact,
              contactGranted |-> TRUE]
chooseOutputFieldsAlwaysGranted(allowlist, withContact) ==
    LET safe == SelectSeq(SAFE_DEFAULT_FIELDS, LAMBDA f : f \in allowlist)
        contact == SelectSeq(CONTACT_FIELDS, LAMBDA f : f \in allowlist)
    IN  IF Len(safe) = 0
        THEN [threw |-> TRUE, message |-> NO_SAFE_FIELDS_MESSAGE,
              fields |-> <<>>, contactGranted |-> FALSE]
        ELSE IF ~withContact
        THEN [threw |-> FALSE, message |-> "", fields |-> safe, contactGranted |-> FALSE]
        ELSE [threw |-> FALSE, message |-> "", fields |-> safe \o contact,
              contactGranted |-> TRUE]
chooseOutputFields(allowlist, withContact) ==
    LET safe == SelectSeq(SAFE_DEFAULT_FIELDS, LAMBDA f : f \in allowlist)
        contact == SelectSeq(CONTACT_FIELDS, LAMBDA f : f \in allowlist)
    IN  IF Len(safe) = 0
        THEN [threw |-> TRUE, message |-> NO_SAFE_FIELDS_MESSAGE,
              fields |-> <<>>, contactGranted |-> FALSE]
        ELSE IF ~withContact
        THEN [threw |-> FALSE, message |-> "", fields |-> safe, contactGranted |-> FALSE]
        ELSE IF Len(contact) = 0
        THEN [threw |-> FALSE, message |-> "", fields |-> safe, contactGranted |-> FALSE]
        ELSE [threw |-> FALSE, message |-> "", fields |-> safe \o contact,
              contactGranted |-> TRUE]

DEFAULT_LIMIT == 20
MAX_LIMIT == 50000

\* clampLimit without Math.min(50000, ...)
clampLimitWithoutUpperBound(raw) ==
    IF raw.t # "number" THEN DEFAULT_LIMIT
    ELSE Max(1, Floor10(raw.v10))
\* clampLimit(raw): raw is a number (in tenths) or undefined
clampLimit(raw) ==
    IF raw.t # "number" THEN DEFAULT_LIMIT
    ELSE Min(MAX_LIMIT, Max(1, Floor10(raw.v10)))

TOP_ACCOUNTS == 10

\* topAccounts(accounts): accounts.slice(0, 10)
topAccounts(accounts) == SubSeq(accounts, 1, Min(TOP_ACCOUNTS, Len(accounts)))

(***************************************************************************)
(* Errors, texts and tool results                                           *)
(***************************************************************************)
PluginRateLimitError(retryAfterSec) ==
    [type |-> "PluginRateLimitError", retryAfterSec |-> retryAfterSec]

OrbioApiError(status, code, detail, requestId, retryAfter) ==
    [type |-> "OrbioApiError", status |-> status, code |-> code, detail |-> detail,
     requestId |-> requestId, retryAfter |-> retryAfter]

\* an Error object that is neither of the two above (TypeError, Error, ...)
JsError(name, message) == [type |-> "Error", name |-> name, message |-> message]

\* a thrown value that is no Error object (throw "boom")
ThrownValue == [type |-> "value"]

NoError == [type |-> "none"]

\* String.prototype.toLowerCase on the strings the model uses
Lower(s) ==
    CASE s = "SEARCH" -> "search"
      [] s = "Export" -> "export"
      [] s = "STATUS" -> "status"
      [] s = "HTML" -> "html"
      [] s = "CSV" -> "csv"
      [] s = "RATE_LIMIT_EXCEEDED" -> "rate_limit_exceeded"
      [] s = "TIMEOUT" -> "timeout"
      [] s = "NETWORK_ERROR" -> "network_error"
      [] OTHER -> s

\* the text of a tool result: its first lines, and the JSON block after them
NoJson == [t |-> "none"]
Text(line, json) == [line |-> line, json |-> json]

\* errorText's message for a PluginRateLimitError
PluginRateLimitTextNoSeconds(error) == "Rate limited by plugin policy."
PluginRateLimitText(error) ==
    "Rate limited by plugin policy. Retry in ~" \o ToString(error.retryAfterSec) \o "s."

\* errorText that never reads error.retryAfter
errorTextWithoutRetryAfter(error) ==
    IF error.type = "OrbioApiError"
    THEN LET code == Lower(IF error.code = NULL THEN "" ELSE error.code)
             requestIdSuffix == IF error.requestId \notin {NULL, ""}
                                THEN " (request_id=" \o error.requestId \o ")" ELSE ""
         IN  IF error.status = 429 \/ code = "rate_limit_exceeded"
             THEN "Orbio rate limit exceeded." \o requestIdSuffix
             ELSE "Orbio API error: " \o error.detail \o requestIdSuffix
    ELSE "Unexpected unknown error."
\* errorText(error)
errorText(error) ==
    IF error.type = "PluginRateLimitError"
    THEN PluginRateLimitText(error)
    ELSE IF error.type = "OrbioApiError"
    THEN LET code == Lower(IF error.code = NULL THEN "" ELSE error.code)
             requestIdSuffix == IF error.requestId \notin {NULL, ""}
                                THEN " (request_id=" \o error.requestId \o ")" ELSE ""
         IN  IF error.status = 429 \/ code = "rate_limit_exceeded"
             THEN "Orbio rate limit exceeded."
                  \o (IF error.retryAfter \notin {NULL, ""}
                      THEN " Retry-After=" \o error.retryAfter \o "s." ELSE "")
                  \o requestIdSuffix
             ELSE IF code = "quota_exceeded"
             THEN "Orbio quota exceeded for this API key/workspace." \o requestIdSuffix
             ELSE IF \/ code \in {"authentication_required", "authentication_invalid",
                                  "authentication_disabled"}
                     \/ error.status = 401
             THEN "Orbio authentication failed. Check plugin apiKey." \o requestIdSuffix
             ELSE IF code \in {"invalid_spec", "query_too_broad"} \/ error.status = 422
             THEN "Query is invalid or too broad. Narrow filters and retry."
                  \o requestIdSuffix
             ELSE IF code = "dependency_unavailable" \/ error.status >= 500
             THEN "Orbio dependency is temporarily unavailable. Retry shortly."
                  \o requestIdSuffix
             ELSE "Orbio API error: " \o error.detail \o requestIdSuffix
    ELSE IF error.type = "Error"
    THEN "Unexpected error: " \o error.message
    ELSE "Unexpected unknown error."

\* result(text): one text block
result(text) == [content |-> <<[type |-> "text", text |-> text]>>]

\* what a handler delivered to the host
NoOutcome == [delivered |-> "none", result |-> [content |-> <<>>], error |-> NoError]
Returned(text) == [delivered |-> "returned", result |-> result(text), error |-> NoError]
Propagated(error) == [delivered |-> "threw", result |-> [content |-> <<>>], error |-> error]

\* runGuarded's catch clause: return result(errorText(error))
runGuardedCatchErrorsOnly(error) ==
    IF error.type = "value" THEN Propagated(error)
    ELSE Returned(Text(errorText(error), NoJson))
runGuardedCatch(error) == Returned(Text(errorText(error), NoJson))

(***************************************************************************)
(* Renderers.  The pass-through scalars of a payload (request_id, snapshot, *)
(* has_more, ...) are represented by request_id; an account record is the   *)
(* set of the field names it carries.                                       *)
(***************************************************************************)
RestrictedNote(tail) == "\nNote: contact fields are restricted by plan; " \o tail

\* renderSearchText(payload, opts): the text, or the TypeError of reading
\* payload.accounts.length when the payload has no accounts
renderSearchText(payload, opts) ==
    IF "accounts" \notin DOMAIN payload
    THEN [threw |-> TRUE,
          error |-> JsError("TypeError",
                            "Cannot read properties of undefined (reading 'length')"),
          text |-> Text("", NoJson)]
    ELSE [threw |-> FALSE, error |-> NoError,
          text |-> Text("Search completed."
                        \o (IF opts.withContactRequested /\ ~opts.contactGranted
                            THEN RestrictedNote("returning masked fields only.") ELSE ""),
                        [t |-> "object",
                         request_id |-> Get(payload, "request_id", NULL),
                         result_count |-> Len(payload.accounts),
                         fields |-> opts.fields,
                         accounts |-> topAccounts(payload.accounts)])]

\* renderExportText(payload, opts)
renderExportText(payload, opts) ==
    IF "preview_accounts" \notin DOMAIN payload
    THEN [threw |-> TRUE,
          error |-> JsError("TypeError",
                            "Cannot read properties of undefined (reading 'slice')"),
          text |-> Text("", NoJson)]
    ELSE [threw |-> FALSE, error |-> NoError,
          text |-> Text("Export requested."
                        \o (IF opts.withContactRequested /\ ~opts.contactGranted
                            THEN RestrictedNote("export uses masked fields only.") ELSE ""),
                        [t |-> "object",
                         request_id |-> Get(payload, "request_id", NULL),
                         export |-> Get(payload, "export", NULL),
                         fields |-> opts.fields,
                         preview_accounts |-> topAccounts(payload.preview_accounts)])]

\* renderExportStatusText(payload)
renderExportStatusText(payload) ==
    [threw |-> FALSE, error |-> NoError,
     text |-> Text("Export status:",
                   [t |-> "object",
                    export_id |-> Get(payload, "export_id", NULL),
                    status |-> Get(payload, "status", NULL)])]

(***************************************************************************)
(* Command parser, on the token list parseTokens produced from the raw      *)
(* command string (resolveCommandRaw's result).                             *)
(***************************************************************************)
USAGE_TEXT ==
    "Usage:\n/orbio search <query> [--limit N] [--with-contact]\n"
    \o "/orbio export <query> [--limit N] [--format csv|html] [--with-contact]\n"
    \o "/orbio export-status <export_id>"

\* usageText()
usageText == USAGE_TEXT

NaN == [t |-> "nan", v10 |-> 0]

\* Number(token) for the numerals the model uses, in tenths; NaN otherwise
Number(token) ==
    CASE token = "7" -> Num10(70)
      [] token = "9" -> Num10(90)
      [] token = "0" -> Num10(0)
      [] token = "-3" -> Num10(-30)
      [] token = "2.5" -> Num10(25)
      [] token = "0.5" -> Num10(5)
      [] token = "  " -> Num10(0)
      [] OTHER -> NaN

\* A raw command string is a sequence of symbols: a white-space character, a
\* quote character, or a run of characters that are neither
WhiteSpace == {" ", "\t"}
DQUOTE == "\""
SQUOTE == "'"
IsSpace(x) == x \in WhiteSpace

\* the string a sequence of symbols spells
RECURSIVE Str(_)
Str(symbols) == IF Len(symbols) = 0 THEN "" ELSE Head(symbols) \o Str(Tail(symbols))

\* raw.indexOf(q, p): the first position at or after p that holds q, or 0
RECURSIVE IndexFrom(_, _, _)
IndexFrom(raw, q, p) ==
    IF p > Len(raw) THEN 0 ELSE IF raw[p] = q THEN p ELSE IndexFrom(raw, q, p + 1)

\* where the greedy \S+ that starts at p ends
RECURSIVE RunEnd(_, _)
RunEnd(raw, p) ==
    IF p + 1 <= Len(raw) /\ ~IsSpace(raw[p + 1]) THEN RunEnd(raw, p + 1) ELSE p

\* the exec loop of parseTokens from position p: at a quote that has a
\* closing quote the span between them is the token, at any other character
\* that is no white space the run of such characters is; empty tokens are
\* dropped
RECURSIVE scanTokens(_, _, _)
scanTokens(raw, p, out) ==
    IF p > Len(raw) THEN out
    ELSE LET close == IF raw[p] \in {DQUOTE, SQUOTE} THEN IndexFrom(raw, raw[p], p + 1)
                      ELSE 0
         IN  IF close > 0
             THEN LET token == Str(SubSeq(raw, p + 1, close - 1))
                  IN  scanTokens(raw, close + 1,
                                 IF token # "" THEN Append(out, token) ELSE out)
             ELSE IF ~IsSpace(raw[p])
             THEN scanTokens(raw, RunEnd(raw, p) + 1,
                             Append(out, Str(SubSeq(raw, p, RunEnd(raw, p)))))
             ELSE scanTokens(raw, p + 1, out)

\* a tokenizer that knows no quotes: the runs of characters that are no white
\* space
RECURSIVE scanWords(_, _, _)
scanWords(raw, p, out) ==
    IF p > Len(raw) THEN out
    ELSE IF ~IsSpace(raw[p])
    THEN scanWords(raw, RunEnd(raw, p) + 1,
                   Append(out, Str(SubSeq(raw, p, RunEnd(raw, p)))))
    ELSE scanWords(raw, p + 1, out)
parseTokensWithoutQuotes(raw) == scanWords(raw, 1, <<>>)
\* parseTokens(raw)
parseTokens(raw) == scanTokens(raw, 1, <<>>)

\* String.prototype.trim on a raw string
RECURSIVE TrimRaw(_)
TrimRaw(raw) ==
    IF Len(raw) = 0 THEN raw
    ELSE IF IsSpace(raw[1]) THEN TrimRaw(Tail(raw))
    ELSE IF IsSpace(raw[Len(raw)]) THEN TrimRaw(SubSeq(raw, 1, Len(raw) - 1))
    ELSE raw

\* String.prototype.trim, trimStart and trimEnd on the token strings the
\* model uses: the ones with leading or trailing white space are the quoted
\* spans "  ", " " and " x "
Trim(s) == IF s \in {"  ", " "} THEN "" ELSE IF s = " x " THEN "x" ELSE s
TrimStart(s) == IF s \in {"  ", " "} THEN "" ELSE IF s = " x " THEN "x " ELSE s
TrimEnd(s) == IF s \in {"  ", " "} THEN "" ELSE IF s = " x " THEN " x" ELSE s

\* parts.join(" ")
RECURSIVE Join(_)
Join(parts) ==
    IF Len(parts) = 0 THEN ""
    ELSE IF Len(parts) = 1 THEN parts[1]
    ELSE parts[1] \o " " \o Join(Tail(parts))

TrimJoinedWithoutSeparator(parts) ==
    LET solid == {i \in 1..Len(parts) : Trim(parts[i]) # ""}
    IN  IF solid = {} THEN ""
        ELSE LET first == CHOOSE i \in solid : \A j \in solid : i <= j
                 last == CHOOSE i \in solid : \A j \in solid : j <= i
             IN  IF first = last THEN Trim(parts[first])
                 ELSE TrimStart(parts[first])
                      \o (IF last - first > 1
                          THEN Join(SubSeq(parts, first + 1, last - 1)) ELSE "")
                      \o TrimEnd(parts[last])
\* parts.join(" ").trim(): white space goes from the ends of the joined string,
\* which are the blank parts at its ends with the separators next to them,
\* and the outer ends of the first and last part that is not blank
TrimJoined(parts) ==
    LET solid == {i \in 1..Len(parts) : Trim(parts[i]) # ""}
    IN  IF solid = {} THEN ""
        ELSE LET first == CHOOSE i \in solid : \A j \in solid : i <= j
                 last == CHOOSE i \in solid : \A j \in solid : j <= i
             IN  IF first = last THEN Trim(parts[first])
                 ELSE TrimStart(parts[first]) \o " "
                      \o (IF last - first > 1
                          THEN Join(SubSeq(parts, first + 1, last - 1)) \o " " ELSE "")
                      \o TrimEnd(parts[last])

INVALID_LIMIT_MESSAGE == "Invalid --limit value. Use an integer >= 1."
INVALID_FORMAT_MESSAGE == "Invalid --format value. Use csv or html."
MISSING_EXPORT_ID_MESSAGE == "Missing export_id. Use: /orbio export-status <export_id>"

RECURSIVE scanRestMissingLimitDefaults(_, _, _, _)
scanRestMissingLimitDefaults(action, rest, idx, acc) ==
    IF idx > Len(rest) THEN acc
    ELSE LET token == rest[idx]
         IN  IF token = "--with-contact"
             THEN scanRestMissingLimitDefaults(action, rest, idx + 1,
                                               [acc EXCEPT !.withContact = TRUE])
             ELSE IF token = "--limit" /\ idx = Len(rest)
             THEN acc
             ELSE IF token = "--limit"
             THEN LET parsed == Number(rest[idx + 1])
                  IN  IF parsed.t # "number" \/ parsed.v10 <= 0
                      THEN [acc EXCEPT !.error = INVALID_LIMIT_MESSAGE]
                      ELSE scanRestMissingLimitDefaults(
                               action, rest, idx + 2,
                               [acc EXCEPT !.limit = Num10(10 * Floor10(parsed.v10))])
             ELSE IF action = "export" /\ token = "--format"
             THEN LET rawFormat == Lower(IF idx + 1 <= Len(rest) THEN rest[idx + 1] ELSE "")
                  IN  IF rawFormat \notin {"csv", "html"}
                      THEN [acc EXCEPT !.error = INVALID_FORMAT_MESSAGE]
                      ELSE scanRestMissingLimitDefaults(action, rest, idx + 2,
                                                        [acc EXCEPT !.format = rawFormat])
             ELSE scanRestMissingLimitDefaults(action, rest, idx + 1,
                                               [acc EXCEPT !.queryParts = Append(@, token)])
RECURSIVE scanRestContactBeforeQuery(_, _, _, _)
scanRestContactBeforeQuery(action, rest, idx, acc) ==
    IF idx > Len(rest) THEN acc
    ELSE LET token == rest[idx]
         IN  IF token = "--with-contact"
             THEN scanRestContactBeforeQuery(
                      action, rest, idx + 1,
                      [acc EXCEPT !.withContact = @ \/ Len(acc.queryParts) = 0])
             ELSE IF token = "--limit"
             THEN LET parsed == IF idx + 1 <= Len(rest) THEN Number(rest[idx + 1]) ELSE NaN
                  IN  IF parsed.t # "number" \/ parsed.v10 <= 0
                      THEN [acc EXCEPT !.error = INVALID_LIMIT_MESSAGE]
                      ELSE scanRestContactBeforeQuery(
                               action, rest, idx + 2,
                               [acc EXCEPT !.limit = Num10(10 * Floor10(parsed.v10))])
             ELSE IF action = "export" /\ token = "--format"
             THEN LET rawFormat == Lower(IF idx + 1 <= Len(rest) THEN rest[idx + 1] ELSE "")
                  IN  IF rawFormat \notin {"csv", "html"}
                      THEN [acc EXCEPT !.error = INVALID_FORMAT_MESSAGE]
                      ELSE scanRestContactBeforeQuery(action, rest, idx + 2,
                                                      [acc EXCEPT !.format = rawFormat])
             ELSE scanRestContactBeforeQuery(action, rest, idx + 1,
                                             [acc EXCEPT !.queryParts = Append(@, token)])
RECURSIVE scanRestFormatCaseSensitive(_, _, _, _)
scanRestFormatCaseSensitive(action, rest, idx, acc) ==
    IF idx > Len(rest) THEN acc
    ELSE LET token == rest[idx]
         IN  IF token = "--with-contact"
             THEN scanRestFormatCaseSensitive(action, rest, idx + 1,
                                              [acc EXCEPT !.withContact = TRUE])
             ELSE IF token = "--limit"
             THEN LET parsed == IF idx + 1 <= Len(rest) THEN Number(rest[idx + 1]) ELSE NaN
                  IN  IF parsed.t # "number" \/ parsed.v10 <= 0
                      THEN [acc EXCEPT !.error = INVALID_LIMIT_MESSAGE]
                      ELSE scanRestFormatCaseSensitive(
                               action, rest, idx + 2,
                               [acc EXCEPT !.limit = Num10(10 * Floor10(parsed.v10))])
             ELSE IF action = "export" /\ token = "--format"
             THEN LET rawFormat == IF idx + 1 <= Len(rest) THEN rest[idx + 1] ELSE ""
                  IN  IF rawFormat \notin {"csv", "html"}
                      THEN [acc EXCEPT !.error = INVALID_FORMAT_MESSAGE]
                      ELSE scanRestFormatCaseSensitive(action, rest, idx + 2,
                                                       [acc EXCEPT !.format = rawFormat])
             ELSE scanRestFormatCaseSensitive(action, rest, idx + 1,
                                              [acc EXCEPT !.queryParts = Append(@, token)])
\* the for loop of parseCommand over rest, from index idx (1-based)
RECURSIVE scanRest(_, _, _, _)
scanRest(action, rest, idx, acc) ==
    IF idx > Len(rest) THEN acc
    ELSE LET token == rest[idx]
         IN  IF token = "--with-contact"
             THEN scanRest(action, rest, idx + 1, [acc EXCEPT !.withContact = TRUE])
             ELSE IF token = "--limit"
             THEN LET parsed == IF idx + 1 <= Len(rest) THEN Number(rest[idx + 1]) ELSE NaN
                  IN  IF parsed.t # "number" \/ parsed.v10 <= 0
                      THEN [acc EXCEPT !.error = INVALID_LIMIT_MESSAGE]
                      ELSE scanRest(action, rest, idx + 2,
                                    [acc EXCEPT !.limit = Num10(10 * Floor10(parsed.v10))])
             ELSE IF action = "export" /\ token = "--format"
             THEN LET rawFormat == Lower(IF idx + 1 <= Len(rest) THEN rest[idx + 1] ELSE "")
                  IN  IF rawFormat \notin {"csv", "html"}
                      THEN [acc EXCEPT !.error = INVALID_FORMAT_MESSAGE]
                      ELSE scanRest(action, rest, idx + 2, [acc EXCEPT !.format = rawFormat])
             ELSE scanRest(action, rest, idx + 1,
                           [acc EXCEPT !.queryParts = Append(@, token)])

\* a ParsedCommand, or {error}; absent members hold their JavaScript defaults
ParseError(message) ==
    [action |-> "error", error |-> message, queryText |-> "", limit |-> Undefined,
     withContact |-> FALSE, format |-> NULL, exportId |-> ""]

parseCommandCaseSensitive(tokens) ==
    IF Len(tokens) = 0 THEN ParseError(usageText)
    ELSE LET action == tokens[1]
             rest == Tail(tokens)
         IN  IF action \in {"search", "export"}
             THEN LET acc == scanRest(action, rest, 1,
                                      [withContact |-> FALSE, limit |-> Undefined,
                                       format |-> "csv", queryParts |-> <<>>,
                                       error |-> NULL])
                      queryText == TrimJoined(acc.queryParts)
                  IN  IF acc.error # NULL THEN ParseError(acc.error)
                      ELSE IF queryText = ""
                      THEN ParseError("Missing query text.\n\n" \o usageText)
                      ELSE [action |-> action, error |-> NULL, queryText |-> queryText,
                            limit |-> acc.limit, withContact |-> acc.withContact,
                            format |-> IF action = "export" THEN acc.format ELSE NULL,
                            exportId |-> ""]
             ELSE IF action \in {"export-status", "status"}
             THEN LET exportId == IF Len(rest) > 0 THEN Trim(rest[1]) ELSE ""
                  IN  IF exportId = "" THEN ParseError(MISSING_EXPORT_ID_MESSAGE)
                      ELSE [action |-> "export-status", error |-> NULL, queryText |-> "",
                            limit |-> Undefined, withContact |-> FALSE, format |-> NULL,
                            exportId |-> exportId]
             ELSE ParseError("Unknown command: " \o action \o "\n\n" \o usageText)
\* parseCommand, after parseTokens
parseCommand(tokens) ==
    IF Len(tokens) = 0 THEN ParseError(usageText)
    ELSE LET action == Lower(tokens[1])
             rest == Tail(tokens)
         IN  IF action \in {"search", "export"}
             THEN LET acc == scanRest(action, rest, 1,
                                      [withContact |-> FALSE, limit |-> Undefined,
                                       format |-> "csv", queryParts |-> <<>>,
                                       error |-> NULL])
                      queryText == TrimJoined(acc.queryParts)
                  IN  IF acc.error # NULL THEN ParseError(acc.error)
                      ELSE IF queryText = ""
                      THEN ParseError("Missing query text.\n\n" \o usageText)
                      ELSE [action |-> action, error |-> NULL, queryText |-> queryText,
                            limit |-> acc.limit, withContact |-> acc.withContact,
                            format |-> IF action = "export" THEN acc.format ELSE NULL,
                            exportId |-> ""]
             ELSE IF action \in {"export-status", "status"}
             THEN LET exportId == IF Len(rest) > 0 THEN Trim(rest[1]) ELSE ""
                  IN  IF exportId = "" THEN ParseError(MISSING_EXPORT_ID_MESSAGE)
                      ELSE [action |-> "export-status", error |-> NULL, queryText |-> "",
                            limit |-> Undefined, withContact |-> FALSE, format |-> NULL,
                            exportId |-> exportId]
             ELSE ParseError("Unknown command: " \o action \o "\n\n" \o usageText)

(***************************************************************************)
(* The API as the environment: what a fetch may be answered with            *)
(***************************************************************************)
Response(status, requestId, retryAfter, body) ==
    [status |-> status, requestId |-> requestId, retryAfter |-> retryAfter, body |-> body]

\* response.ok
IsOk(response) == response.status >= 200 /\ response.status <= 299

\* field_allowlist values the capabilities endpoint answers with
Allowlists ==
    { {"email"},
      {"cnpj", "legal_name"},
      {"cnpj", "legal_name", "email", "phone1", "internal_score"} }

\* account lists the search and export endpoints answer with
AccountLists ==
    { <<{"cnpj", "legal_name"}>>,
      <<{"cnpj", "legal_name", "email"}, {"cnpj", "phone1"}>> }

SuccessResponses(kind) ==
    CASE kind = "capabilities" ->
            { Response(200, NULL, NULL, JsonBody([t |-> "object", field_allowlist |-> a]))
              : a \in Allowlists }
      [] kind = "search" ->
            { Response(200, NULL, NULL,
                       JsonBody([t |-> "object", request_id |-> "req-search",
                                 accounts |-> l])) : l \in AccountLists }
            \cup { Response(200, NULL, NULL, Body("blank", JsonNull)) }
      [] kind = "export" ->
            { Response(200, NULL, NULL,
                       JsonBody([t |-> "object", request_id |-> "req-export",
                                 export |-> "exp-123", preview_accounts |-> l]))
              : l \in AccountLists }
            \cup { Response(204, NULL, NULL, Body("empty", JsonNull)) }
      [] OTHER ->
            { Response(200, NULL, NULL,
                       JsonBody([t |-> "object", export_id |-> "exp-123",
                                 status |-> "ready"])),
              Response(200, NULL, NULL, Body("broken", JsonNull)),
              Response(204, NULL, NULL, Body("empty", JsonNull)) }

\* error responses: every endpoint answers 404 and 503; the export status
\* endpoint also answers 429, a 500 whose body is not JSON, and a 404 and a
\* 502 whose bodies are broken
ErrorResponses(kind) ==
    { Response(404, NULL, NULL, JsonBody([t |-> "object", detail |-> StringValue("not found")])),
      Response(503, "req-503", "5",
               JsonBody([t |-> "object", code |-> StringValue("top"),
                         error |-> [t |-> "object",
                                    code |-> StringValue("dependency_unavailable")],
                         detail |-> StringValue("provider down")])) }
    \cup IF kind = "status"
         THEN { Response(429, "req-429", "8",
                         JsonBody([t |-> "object",
                                   error |-> [t |-> "object",
                                              code |-> StringValue("rate_limit_exceeded"),
                                              message |-> StringValue("slow down")]])),
                Response(500, NULL, NULL, Body("nonjson", JsonNull)),
                Response(404, "req-404", NULL, Body("broken", JsonNull)),
                Response(502, "req-502", NULL, Body("broken", JsonNull)) }
         ELSE {}

Responses(kind) == SuccessResponses(kind) \cup ErrorResponses(kind)

\* how an attempt's fetch settles: with a response, or rejecting with an
\* AbortError (the timeout timer aborted it), a TypeError (network level), or
\* any other Error
ResponseOutcome(response) == [kind |-> "response", response |-> response]
RejectOutcome(kind) == [kind |-> kind, response |-> Response(0, NULL, NULL, Body("empty", JsonNull))]

(***************************************************************************)
(* OrbioHttpClient.request                                                  *)
(***************************************************************************)
NoBody == [t |-> "undefined"]
NoRequest == [method |-> "", path |-> "", kind |-> "none", body |-> NoBody,
              idempotencyKey |-> NULL]
Request(method, path, kind, body, idempotencyKey) ==
    [method |-> method, path |-> path, kind |-> kind, body |-> body,
     idempotencyKey |-> idempotencyKey]

NoResult == [payload |-> JsonNull, error |-> NoError]

TimeoutDetail(timeoutMs) == "Request timed out after " \o ToString(timeoutMs) \o " ms."
NETWORK_DETAIL == "Network failure while calling Orbio API."

\* catchEnd with the same backoff before every retry
catchEndConstantBackoff(kind, c, att) ==
    LET isAbort == kind = "abort"
        isNetworkError == kind = "network"
    IN  IF (isAbort \/ isNetworkError) /\ att < c.retryCount
        THEN [next |-> "sleep", payload |-> JsonNull, error |-> NoError,
              delay |-> c.retryBackoffMs]
        ELSE [next |-> "throw", payload |-> JsonNull,
              error |-> OrbioApiError(0,
                                      IF isAbort THEN "TIMEOUT" ELSE "NETWORK_ERROR",
                                      IF isAbort THEN TimeoutDetail(c.timeoutMs)
                                      ELSE NETWORK_DETAIL,
                                      NULL, NULL),
              delay |-> 0]
\* what the loop does with the error it caught at loop index att: Error named
\* AbortError (abort), TypeError (network), or any other Error (error)
catchEndNoNetworkRetry(kind, c, att) ==
    LET isAbort == kind = "abort"
        isNetworkError == kind = "network"
    IN  IF isAbort /\ att < c.retryCount
        THEN [next |-> "sleep", payload |-> JsonNull, error |-> NoError,
              delay |-> c.retryBackoffMs * (att + 1)]
        ELSE [next |-> "throw", payload |-> JsonNull,
              error |-> OrbioApiError(0,
                                      IF isAbort THEN "TIMEOUT" ELSE "NETWORK_ERROR",
                                      IF isAbort THEN TimeoutDetail(c.timeoutMs)
                                      ELSE NETWORK_DETAIL,
                                      NULL, NULL),
              delay |-> 0]
catchEndSwapsCodes(kind, c, att) ==
    LET isAbort == kind = "abort"
        isNetworkError == kind = "network"
    IN  IF (isAbort \/ isNetworkError) /\ att < c.retryCount
        THEN [next |-> "sleep", payload |-> JsonNull, error |-> NoError,
              delay |-> c.retryBackoffMs * (att + 1)]
        ELSE [next |-> "throw", payload |-> JsonNull,
              error |-> OrbioApiError(0,
                                      IF isNetworkError THEN "TIMEOUT" ELSE "NETWORK_ERROR",
                                      IF isAbort THEN TimeoutDetail(c.timeoutMs)
                                      ELSE NETWORK_DETAIL,
                                      NULL, NULL),
              delay |-> 0]
catchEnd(kind, c, att) ==
    LET isAbort == kind = "abort"
        isNetworkError == kind = "network"
    IN  IF (isAbort \/ isNetworkError) /\ att < c.retryCount
        THEN [next |-> "sleep", payload |-> JsonNull, error |-> NoError,
              delay |-> c.retryBackoffMs * (att + 1)]
        ELSE [next |-> "throw", payload |-> JsonNull,
              error |-> OrbioApiError(0,
                                      IF isAbort THEN "TIMEOUT" ELSE "NETWORK_ERROR",
                                      IF isAbort THEN TimeoutDetail(c.timeoutMs)
                                      ELSE NETWORK_DETAIL,
                                      NULL, NULL),
              delay |-> 0]

\* the retry test with <= for <: the last attempt's 5xx is retried too
RetriesStatusAtLastAttempt(response, c, att) ==
    response.status >= 500 /\ att <= c.retryCount
\* response.status >= 500 && attempt < this.cfg.retryCount
RetriesStatus(response, c, att) == response.status >= 500 /\ att < c.retryCount

\* OkPayload without the ?? {} fallback
OkPayloadKeepsNull(response) ==
    IF response.status = 204 THEN EmptyObject ELSE parseJsonSafe(response.body)
\* what request() returns for an ok response whose body was read
OkPayloadAlwaysEmpty(response) == EmptyObject
OkPayload(response) ==
    IF response.status = 204 \/ parseJsonSafe(response.body) = JsonNull
    THEN EmptyObject
    ELSE parseJsonSafe(response.body)

\* one pass of the loop body after fetch settled with out, at loop index att:
\* return the payload, sleep and continue, or throw
attemptEnd(out, c, att) ==
    IF out.kind # "response"
    THEN catchEnd(out.kind, c, att)
    ELSE LET response == out.response
             problem == parseProblem(parseJsonSafe(response.body))
         IN  IF IsOk(response) /\ response.status = 204
             THEN [next |-> "return", payload |-> OkPayload(response),
                   error |-> NoError, delay |-> 0]
             ELSE IF ~IsOk(response) /\ RetriesStatus(response, c, att)
             THEN [next |-> "sleep", payload |-> JsonNull, error |-> NoError,
                   delay |-> c.retryBackoffMs * (att + 1)]
             ELSE IF response.body.raw = "broken"
             THEN catchEnd("network", c, att)
             ELSE IF IsOk(response)
             THEN [next |-> "return", payload |-> OkPayload(response),
                   error |-> NoError, delay |-> 0]
             ELSE [next |-> "throw", payload |-> JsonNull,
                   error |-> OrbioApiError(response.status, problem.code, problem.detail,
                                           response.requestId, response.retryAfter),
                   delay |-> 0]

RETRY_EXHAUSTED_ERROR ==
    OrbioApiError(0, "RETRY_EXHAUSTED", "Transient retries exhausted.", NULL, NULL)

\* the loop condition of request(): attempt <= retryCount
LoopContinues(att, c) == att <= c.retryCount

\* the locals of request() with the timers and the requests sent so far, before
\* any call of request()
NoRequestState(tms, snt) ==
    [req |-> NoRequest, attempt |-> 0, rpc |-> "none", fetches |-> 0, sleeps |-> <<>>,
     outcomes |-> <<>>, reqResult |-> NoResult, timers |-> tms, sent |-> snt]

\* the loop head with the Idempotency-Key built anew for every attempt after
\* the first
LoopHeadRegeneratesKey(r, c, t) ==
    IF LoopContinues(r.attempt, c)
    THEN [r EXCEPT !.rpc = "fetching",
                   !.timers = @ \cup {[kind |-> "timeout", at |-> t + c.timeoutMs]},
                   !.sent = Append(@, [method |-> r.req.method, path |-> r.req.path,
                                       kind |-> r.req.kind, body |-> r.req.body,
                                       idempotencyKey |->
                                           IF r.req.kind = "export" /\ r.attempt > 0
                                           THEN [r.req.idempotencyKey
                                                 EXCEPT !.suffix = "ffffffffffff"]
                                           ELSE r.req.idempotencyKey,
                                       attempt |-> r.attempt, at |-> t,
                                       settled |-> FALSE, settledAt |-> t]),
                   !.fetches = @ + 1]
    ELSE [r EXCEPT !.rpc = "thrown",
                   !.reqResult = [payload |-> JsonNull, error |-> RETRY_EXHAUSTED_ERROR]]
\* the loop head at time t: the next attempt's timer and fetch, or the
\* fallback throw
LoopHead(r, c, t) ==
    IF LoopContinues(r.attempt, c)
    THEN [r EXCEPT !.rpc = "fetching",
                   !.timers = @ \cup {[kind |-> "timeout", at |-> t + c.timeoutMs]},
                   !.sent = Append(@, [method |-> r.req.method, path |-> r.req.path,
                                       kind |-> r.req.kind, body |-> r.req.body,
                                       idempotencyKey |-> r.req.idempotencyKey,
                                       attempt |-> r.attempt, at |-> t,
                                       settled |-> FALSE, settledAt |-> t]),
                   !.fetches = @ + 1]
    ELSE [r EXCEPT !.rpc = "thrown",
                   !.reqResult = [payload |-> JsonNull, error |-> RETRY_EXHAUSTED_ERROR]]

\* http.request(...) is called at time t: the loop starts at attempt 0 and
\* runs up to its first await
CallRequest(request, c, t, tms, snt) ==
    LoopHead([NoRequestState(tms, snt) EXCEPT !.req = request], c, t)

\* clearTimeout(timeout) left out: the timeout timer stays pending
ClearTimeoutKeepsTimer(ts) == ts

\* clearTimeout(timeout)
ClearTimeout(ts) == {t \in ts : t.kind # "timeout"}

\* the rest of the loop body once fetch settled with out at time t; pending
\* holds the timers left after the timeout timer fired or was cleared
AfterFetch(r, out, c, t, pending) ==
    LET e == attemptEnd(out, c, r.attempt)
    IN  [r EXCEPT !.outcomes = Append(@, out),
                  !.rpc = CASE e.next = "return" -> "returned"
                            [] e.next = "sleep" -> "sleeping"
                            [] OTHER -> "thrown",
                  !.reqResult = [payload |-> e.payload, error |-> e.error],
                  !.timers = IF e.next = "sleep"
                             THEN pending \cup {[kind |-> "sleep", at |-> t + e.delay]}
                             ELSE pending,
                  !.sleeps = IF e.next = "sleep" THEN Append(@, e.delay) ELSE @,
                  !.sent = [@ EXCEPT ![Len(@)].settled = TRUE,
                                     ![Len(@)].settledAt = t]]

\* sleep(retryBackoffMs * (attempt + 1)) resolved at time t: attempt += 1 and
\* the loop head again
AfterSleep(r, c, t, pending) ==
    LoopHead([r EXCEPT !.attempt = @ + 1, !.timers = pending], c, t)

(***************************************************************************)
(* registerOrbioPlugin: the capabilities cache and the guarded handlers     *)
(***************************************************************************)
NoCache == [present |-> FALSE, expiresAt |-> 0, value |-> EmptyObject, fetchStartedAt |-> 0]

\* getCapabilities: capabilitiesCache && capabilitiesCache.expiresAt > now
CacheFreshInclusive(cache, t) == cache.present /\ cache.expiresAt >= t
CacheFresh(cache, t) == cache.present /\ cache.expiresAt > t

\* getCapabilities: the cache entry stored after a fetch that was started at
\* startedAt (the now read on entry) and whose first fetch call went out at
\* fetchStartedAt (history)
CacheEntry(response, startedAt, completedAt, fetchStartedAt, ttl) ==
    [present |-> TRUE, expiresAt |-> startedAt + ttl, value |-> response,
     fetchStartedAt |-> fetchStartedAt]

\* caps.field_allowlist as new Set(...) reads it: empty when undefined
AllowlistOf(caps) == Get(caps, "field_allowlist", {})

\* the arguments of the three direct tools, and what doCommand passes on
ToolArgs(kind, queryText, limit, withContact, format, exportId) ==
    [kind |-> kind, query_text |-> queryText, limit |-> limit,
     with_contact |-> withContact, format |-> format, export_id |-> exportId]

NoArgs == ToolArgs("none", "", Undefined, FALSE, NULL, "")

\* doCommand's mapping without parsed.format: doExport falls back to csv
ArgsOfParsedWithoutFormat(parsed) ==
    ToolArgs(parsed.action, parsed.queryText, parsed.limit, parsed.withContact,
             NULL, parsed.exportId)
\* doCommand's mapping of a ParsedCommand to a direct tool's arguments
ArgsOfParsed(parsed) ==
    ToolArgs(parsed.action, parsed.queryText, parsed.limit, parsed.withContact,
             parsed.format, parsed.exportId)

\* the request body of doSearch / doExport
RequestBody(args, format, fields) ==
    [query_text |-> args.query_text, limit |-> clampLimit(args.limit),
     output |-> [format |-> format, include_explain |-> FALSE, fields |-> fields]]

\* JSON.stringify of a string without characters to escape, and of an array
\* of such strings
JsonString(str) == DQUOTE \o str \o DQUOTE
RECURSIVE JsonItems(_)
JsonItems(items) ==
    IF items = <<>> THEN ""
    ELSE IF Len(items) = 1 THEN JsonString(items[1])
    ELSE JsonString(items[1]) \o "," \o JsonItems(Tail(items))
JsonArray(items) == "[" \o JsonItems(items) \o "]"

\* JSON.stringify(requestBody): the members in the order doExport wrote them
Stringify(body) ==
    "{" \o JsonString("query_text") \o ":" \o JsonString(body.query_text)
        \o "," \o JsonString("limit") \o ":" \o ToString(body.limit)
        \o "," \o JsonString("output") \o ":{"
        \o JsonString("format") \o ":" \o JsonString(body.output.format)
        \o "," \o JsonString("include_explain") \o ":"
        \o (IF body.output.include_explain THEN "true" ELSE "false")
        \o "," \o JsonString("fields") \o ":" \o JsonArray(body.output.fields)
        \o "}}"

\* createHash("sha256").update(text).digest("hex").slice(0, 24). SHA-256 is
\* not computed: a digest is named by the text it was taken of, so the digests
\* of two texts are equal exactly when the texts are (no collision among the
\* texts of the model)
DIGEST_HEX_CHARS == 24
Sha256Hex(text, chars) == [sha256 |-> text, hexChars |-> chars]

\* buildIdempotencyKey with the digest taken of the payload and the suffix
buildIdempotencyKeyDigestOfSuffix(prefix, payload, suffix) ==
    [namespace |-> "openclaw", prefix |-> prefix,
     digest |-> Sha256Hex(Stringify(payload) \o suffix, DIGEST_HEX_CHARS),
     suffix |-> suffix]
\* buildIdempotencyKey(prefix, payload): openclaw:<prefix>:<digest>:<suffix>;
\* the digest is a function of the payload alone, the suffix is random
buildIdempotencyKey(prefix, payload, suffix) ==
    [namespace |-> "openclaw", prefix |-> prefix,
     digest |-> Sha256Hex(Stringify(payload), DIGEST_HEX_CHARS), suffix |-> suffix]

\* encodeURIComponent on the export ids the model uses (unreserved characters)
encodeURIComponent(id) == id

NoSelection == [threw |-> FALSE, message |-> "", fields |-> <<>>, contactGranted |-> FALSE]
NoCapsFrom == [src |-> "none", at |-> 0, cache |-> NoCache]

\* a handler's next position: h.pc with outcome h.outcome, after starting
\* request h.req (or none)
Finish(out) == [pc |-> "done", outcome |-> out, req |-> NoRequest, sel |-> NoSelection,
                caps |-> "none"]
Await(position, request, selection) ==
    [pc |-> position, outcome |-> NoOutcome, req |-> request, sel |-> selection,
     caps |-> "none"]

\* doSearch / doExport once the capabilities are known
WithCapabilities(args, caps, suffix) ==
    LET withContact == args.with_contact
        choice == chooseOutputFields(AllowlistOf(caps), withContact)
        format == IF args.kind = "search" THEN "json"
                  ELSE IF args.format = NULL THEN "csv" ELSE args.format
        body == RequestBody(args, format, choice.fields)
    IN  IF choice.threw
        THEN Finish(runGuardedCatch(JsError("Error", choice.message)))
        ELSE IF args.kind = "search"
        THEN Await("main", Request("POST", "/v1/accounts/search", "search", body, NULL),
                   choice)
        ELSE Await("main",
                   Request("POST", "/v1/exports", "export", body,
                           buildIdempotencyKey("export", body, suffix)),
                   choice)

\* doSearch / doExport / doExportStatus up to their first await
Dispatch(args, cache, t, suffix) ==
    IF args.kind = "export-status"
    THEN Await("main",
               Request("GET", "/v1/exports/" \o encodeURIComponent(args.export_id),
                       "status", NoBody, NULL),
               NoSelection)
    ELSE IF CacheFresh(cache, t)
    THEN [WithCapabilities(args, cache.value, suffix) EXCEPT !.caps = "cache"]
    ELSE [Await("caps", Request("GET", "/v1/capabilities", "capabilities", NoBody, NULL),
                NoSelection) EXCEPT !.caps = "fetch"]

\* what the host passes to a tool: the arguments of a direct tool, or the
\* command's raw string (and no command_name); fault says that reading the
\* arguments throws
Input(args, raw, fault) ==
    [args |-> args, raw |-> raw, commandName |-> <<>>, fault |-> fault]

\* resolveCommandRaw(args): the trimmed command, else the trimmed command
\* name, else ""; an absent member is the empty string here
resolveCommandRaw(command, commandName) ==
    IF Len(TrimRaw(command)) > 0 THEN TrimRaw(command)
    ELSE IF Len(TrimRaw(commandName)) > 0 THEN TrimRaw(commandName)
    ELSE <<>>

\* parseCommand(raw): parseTokens, then the rest
parse(raw) == parseCommand(parseTokens(raw))

\* doCommand: parseCommand(resolveCommandRaw(args))
ParsedInput(input) == parse(resolveCommandRaw(input.raw, input.commandName))

\* the effective arguments of an invocation: a direct tool's own, or the ones
\* doCommand derives
EffectiveArgs(tool, input) ==
    IF tool = "orbio_command" THEN ArgsOfParsed(ParsedInput(input))
    ELSE input.args

\* fn() of runGuarded up to its first await
Begin(tool, input, cache, t, suffix) ==
    IF tool # "orbio_command"
    THEN Dispatch(input.args, cache, t, suffix)
    ELSE IF input.fault = "value"
    THEN Finish(runGuardedCatch(ThrownValue))
    ELSE LET parsed == ParsedInput(input)
         IN  IF parsed.action = "error"
             THEN Finish(Returned(Text(parsed.error, NoJson)))
             ELSE Dispatch(ArgsOfParsed(parsed), cache, t, suffix)

\* the handler moves to position h.pc, calling http.request when h has one
Enter(st, h, c, t) ==
    IF h.req.kind = "none"
    THEN [st EXCEPT !.pc = h.pc, !.outcome = h.outcome, !.sel = h.sel]
    ELSE [pc |-> h.pc, outcome |-> h.outcome, sel |-> h.sel,
          capabilitiesCache |-> st.capabilitiesCache]
         @@ CallRequest(h.req, c, t, st.timers, st.sent)

\* the handler of invocation inv resumes at time t once the request() it
\* awaits has returned or thrown: getCapabilities stores the snapshot and
\* doSearch / doExport go on; doSearch / doExport / doExportStatus render
Resume(st, inv, c, suffix, t) ==
    IF st.rpc \notin {"returned", "thrown"} \/ st.pc \notin {"caps", "main"} THEN st
    ELSE IF st.rpc = "thrown"
    THEN [st EXCEPT !.pc = "done", !.outcome = runGuardedCatch(st.reqResult.error)]
    ELSE IF st.pc = "caps"
    THEN Enter([st EXCEPT !.capabilitiesCache =
                              CacheEntry(st.reqResult.payload, inv.startedAt, t,
                                         st.sent[1].at, c.capabilitiesTtlMs)],
               WithCapabilities(inv.args, st.reqResult.payload, suffix), c, t)
    ELSE LET opts == [withContactRequested |-> inv.args.with_contact,
                      contactGranted |-> st.sel.contactGranted, fields |-> st.sel.fields]
             rendered == CASE inv.args.kind = "search" ->
                                 renderSearchText(st.reqResult.payload, opts)
                           [] inv.args.kind = "export" ->
                                 renderExportText(st.reqResult.payload, opts)
                           [] OTHER -> renderExportStatusText(st.reqResult.payload)
         IN  [st EXCEPT !.pc = "done",
                        !.outcome = IF rendered.threw THEN runGuardedCatch(rendered.error)
                                    ELSE Returned(rendered.text)]

\* the handler runs on until it awaits a fetch or a sleep, or completes: at
\* most the capabilities call and the main call resume in one go
RunOn(st, inv, c, suffix, t) == Resume(Resume(st, inv, c, suffix, t), inv, c, suffix, t)

\* inputs of the model
SearchInputs ==
    { Input(ToolArgs("search", "saas", Undefined, wc, NULL, ""), <<>>, "none")
      : wc \in BOOLEAN }
ExportInputs ==
    { Input(ToolArgs("export", "saas", Num10(9999990), TRUE, "html", ""), <<>>, "none") }
ExportStatusInputs ==
    { Input(ToolArgs("export-status", "", Undefined, FALSE, NULL, "exp-123"), <<>>, "none") }
CommandInputs ==
    { [Input(NoArgs, <<>>, "none") EXCEPT !.commandName = <<" ", " ", " ">>],
      Input(NoArgs, <<"SEARCH", " ", DQUOTE, "software", " ", "b2b", DQUOTE, " ",
                      "--limit", " ", "7", " ", "--with-contact">>, "none"),
      Input(NoArgs, <<" ", "status", " ">>, "none"),
      Input(NoArgs, <<>>, "value") }

Inputs(tool) ==
    CASE tool = "orbio_search" -> SearchInputs
      [] tool = "orbio_export" -> ExportInputs
      [] tool = "orbio_export_status" -> ExportStatusInputs
      [] OTHER -> CommandInputs

\* randomUUID().replace(/-/g, "").slice(0, 12)
Suffixes == {"0a1b2c3d4e5f", "6a7b8c9d0e1f"}

\* the suffix a handler's randomUUID gives: the handler specifications draw
\* one value, since no later step of a handler depends on the suffix
HandlerSuffixes == {"0a1b2c3d4e5f"}

\* how long after the previous invocation the host makes the next one
IdleDelays == {30000}

\* the suffixes randomUUID can give an invocation: only doExport draws one
NoSuffix == ""
SuffixesFor(args) == IF args.kind = "export" THEN HandlerSuffixes ELSE {NoSuffix}

\* the handler's and request()'s variables as one record
Current ==
    [pc |-> pc, outcome |-> outcome, sel |-> sel, capabilitiesCache |-> capabilitiesCache,
     req |-> req, attempt |-> attempt, rpc |-> rpc, fetches |-> fetches,
     sleeps |-> sleeps, outcomes |-> outcomes, reqResult |-> reqResult,
     timers |-> timers, sent |-> sent]

Assign(st) ==
    /\ pc' = st.pc
    /\ outcome' = st.outcome
    /\ sel' = st.sel
    /\ capabilitiesCache' = st.capabilitiesCache
    /\ req' = st.req
    /\ attempt' = st.attempt
    /\ rpc' = st.rpc
    /\ fetches' = st.fetches
    /\ sleeps' = st.sleeps
    /\ outcomes' = st.outcomes
    /\ reqResult' = st.reqResult
    /\ timers' = st.timers
    /\ sent' = st.sent

\* a tool handler is invoked: runGuarded and fn() up to the first await of a
\* fetch, or to completion
Invoke ==
    /\ pc \in {"idle", "done"}
    /\ registered # {}
    /\ invocations < MaxInvocations
    /\ \E tool \in registered, delay \in IdleDelays :
       \E input \in Inputs(tool) :
       \E suffix \in SuffixesFor(EffectiveArgs(tool, input)) :
          LET t == now + delay
              admission == check(events, LimiterKey(cfg.workspaceId, tool),
                                 cfg.maxRequestsPerMinute, t)
              h == IF admission.ok
                   THEN Begin(tool, input, capabilitiesCache, t, suffix)
                   ELSE Finish(runGuardedCatch(PluginRateLimitError(admission.retryAfterSec)))
              inv == [tool |-> tool, input |-> input,
                      args |-> IF admission.ok /\ input.fault = "none"
                               THEN EffectiveArgs(tool, input) ELSE NoArgs,
                      startedAt |-> t,
                      admitted |-> admission.ok,
                      retryAfterSec |-> admission.retryAfterSec]
              fresh == [pc |-> "idle", outcome |-> NoOutcome, sel |-> NoSelection,
                        capabilitiesCache |-> capabilitiesCache]
                       @@ NoRequestState(timers, <<>>)
          IN  /\ now' = t
              /\ events' = admission.events
              /\ call' = inv
              /\ capsFrom' = [src |-> h.caps, at |-> t, cache |-> capabilitiesCache]
              /\ Assign(RunOn(Enter(fresh, h, cfg, t), inv, cfg, suffix, t))
    /\ invocations' = invocations + 1
    /\ UNCHANGED <<startupVars, parserVars, textVars, twin, cfg, checkLog, exportLog>>

\* fetch settled with out at time t: the loop body goes on, and when request()
\* is over the handler resumes
Settle(out, t, pending) ==
    /\ now' = t
    /\ \E suffix \in SuffixesFor(call.args) :
          Assign(RunOn(AfterFetch(Current, out, cfg, t, pending), call, cfg, suffix, t))
    /\ UNCHANGED <<startupVars, parserVars, textVars, twin, cfg, limiterVars, invocations, call,
                   capsFrom, exportLog>>

\* fetch resolves with a response before the timeout
FetchRespond ==
    /\ rpc = "fetching"
    /\ \E response \in Responses(req.kind) :
          Settle(ResponseOutcome(response), now, ClearTimeout(timers))

\* fetch rejects before the timeout: a network-level TypeError, or another Error
FetchReject ==
    /\ rpc = "fetching"
    /\ \E kind \in {"network", "error"} :
          Settle(RejectOutcome(kind), now, ClearTimeout(timers))

\* the timeout timer fires: controller.abort() makes fetch reject with AbortError
FetchTimeout ==
    /\ rpc = "fetching"
    /\ \E timer \in timers :
          /\ timer.kind = "timeout"
          /\ Settle(RejectOutcome("abort"), Max(now, timer.at), timers \ {timer})

\* sleep(retryBackoffMs * (attempt + 1)) resolves; continue
SleepWake ==
    /\ rpc = "sleeping"
    /\ \E timer \in timers, suffix \in SuffixesFor(call.args) :
          /\ timer.kind = "sleep"
          /\ now' = Max(now, timer.at)
          /\ Assign(RunOn(AfterSleep(Current, cfg, Max(now, timer.at), timers \ {timer}),
                          call, cfg, suffix, Max(now, timer.at)))
    /\ UNCHANGED <<startupVars, parserVars, textVars, twin, cfg, limiterVars, invocations, call,
                   capsFrom, exportLog>>

RequestStep == FetchRespond \/ FetchReject \/ FetchTimeout \/ SleepWake

(***************************************************************************)
(* The plugin: sequential tool invocations on one plugin instance           *)
(***************************************************************************)
NoCall == [tool |-> "", input |-> Input(NoArgs, <<>>, "none"), args |-> NoArgs,
           startedAt |-> 0, admitted |-> TRUE, retryAfterSec |-> 0]

\* no command was handed to parseCommand on its own
NoCommand == [words |-> <<>>, raw |-> <<>>]
NoParse == [action |-> "none"]

\* the second handler before any invocation: its handler and request()
\* variables, and the invocation in progress
NoTwin ==
    [call |-> NoCall,
     run |-> [pc |-> "idle", outcome |-> NoOutcome, sel |-> NoSelection,
              capabilitiesCache |-> NoCache] @@ NoRequestState({}, <<>>)]

\* no failing response was handed to request() on its own
NoFailure == [response |-> Response(0, NULL, NULL, Body("empty", JsonNull)),
              error |-> NoError]

\* the state after registerOrbioPlugin(a) returned
InitWith(a) ==
    /\ api = a
    /\ registered = Tools
    /\ startupError = NULL
    /\ parseInput = NoCommand
    /\ parseResult = NoParse
    /\ failure = NoFailure
    /\ errorMessage = NULL
    /\ twin = NoTwin
    /\ cfg = readConfig(a.config)
    /\ now = 0
    /\ events = [k \in Keys |-> <<>>]
    /\ checkLog = <<>>
    /\ capabilitiesCache = NoCache
    /\ invocations = 0
    /\ pc = "idle"
    /\ call = NoCall
    /\ capsFrom = NoCapsFrom
    /\ sel = NoSelection
    /\ outcome = NoOutcome
    /\ sent = <<>>
    /\ exportLog = <<>>
    /\ req = NoRequest
    /\ attempt = 0
    /\ rpc = "none"
    /\ fetches = 0
    /\ sleeps = <<>>
    /\ outcomes = <<>>
    /\ reqResult = NoResult
    /\ timers = {}

\* the raw configs of the plugin specification: times on a 30 s grid
PluginRawConfigs ==
    { RawConfig(Num10(10 * r), Num10(10), Num10(300000), Num10(300000), Num10(600000))
      : r \in {1} }

Init == \E raw \in PluginRawConfigs : InitWith(Api(raw, NoEnv))

Next == Invoke \/ RequestStep

Spec == Init /\ [][Next]_vars

(***************************************************************************)
(* request() on its own: one call, every retry count readConfig can yield    *)
(***************************************************************************)
RequestRawConfigs ==
    { RawConfig(r, Undefined, Undefined, Undefined, Undefined)
      : r \in {Undefined, Num10(-10), Num10(0), Num10(10), Num10(25), Num10(30),
               Num10(50)} }

RequestsOfModel ==
    { Request("GET", "/v1/capabilities", "capabilities", NoBody, NULL),
      Request("GET", "/v1/exports/exp-123", "status", NoBody, NULL),
      Request("POST", "/v1/exports", "export",
              RequestBody(ToolArgs("export", "saas", Undefined, FALSE, NULL, ""), "csv",
                          <<"cnpj">>),
              buildIdempotencyKey("export",
                                  RequestBody(ToolArgs("export", "saas", Undefined, FALSE,
                                                       NULL, ""), "csv", <<"cnpj">>),
                                  "0a1b2c3d4e5f")) }

InitRequest == \E raw \in RequestRawConfigs : InitWith(Api(raw, NoEnv))

\* http.request(...) is called once, outside any handler
RequestCall ==
    /\ rpc = "none"
    /\ \E request \in RequestsOfModel :
          Assign([pc |-> pc, outcome |-> outcome, sel |-> sel,
                  capabilitiesCache |-> capabilitiesCache]
                 @@ CallRequest(request, cfg, now, timers, sent))
    /\ UNCHANGED <<startupVars, parserVars, textVars, twin, cfg, now, limiterVars,
                   invocations, call, capsFrom, exportLog>>

\* 2xx responses that carry no JSON to parse: a 204 (with any body), and a 200
\* or 201 whose body is empty, blank, or text that is not JSON
BodilessResponses ==
    { Response(st, NULL, NULL, Body(raw, JsonNull))
      : st \in {200, 201, 204}, raw \in {"empty", "blank", "nonjson"} }
    \cup { Response(204, NULL, NULL, JsonBody([t |-> "object", status |-> "ready"])) }

\* fetch resolves with such a response before the timeout
FetchRespondBodiless ==
    /\ rpc = "fetching"
    /\ \E response \in BodilessResponses :
          Settle(ResponseOutcome(response), now, ClearTimeout(timers))
NextRequest == RequestCall \/ RequestStep \/ FetchRespondBodiless

SpecRequest == InitRequest /\ [][NextRequest]_vars

(***************************************************************************)
(* The limiter on its own: checks of two keys under an advancing clock      *)
(***************************************************************************)
\* the keys the limiter-only specification checks
LimiterKeysOfModel ==
    {LimiterKey("workspace-1", t) : t \in {"orbio_search", "orbio_export"}}

\* the instants Date.now() takes in the limiter-only specification
TimePoints == {1, 30000, 60000, 60001, 90000, 120001}

LimiterRawConfigs ==
    { RawConfig(Undefined, Num10(10 * l), Undefined, Undefined, Undefined)
      : l \in 1..MaxLimit }

InitLimiter == \E raw \in LimiterRawConfigs : InitWith(Api(raw, NoEnv))

\* limiter.check(key, cfg.maxRequestsPerMinute) is called at the current time
LimiterCheck ==
    /\ Len(checkLog) < MaxChecks
    /\ \E key \in LimiterKeysOfModel :
          LET r == check(events, key, cfg.maxRequestsPerMinute, now)
          IN  /\ events' = r.events
              /\ checkLog' = Append(checkLog,
                                    [key |-> key, at |-> now, ok |-> r.ok,
                                     retryAfterSec |-> r.retryAfterSec,
                                     stored |-> r.events])
    /\ UNCHANGED <<startupVars, parserVars, textVars, twin, cfg, now, handlerVars, sent,
                   exportLog, requestVars>>

\* time passes between two checks
LimiterTick ==
    /\ Len(checkLog) < MaxChecks
    /\ \E t \in TimePoints : t > now /\ now' = t
    /\ UNCHANGED <<startupVars, parserVars, textVars, twin, cfg, limiterVars, handlerVars,
                   sent, exportLog, requestVars>>

NextLimiter == LimiterCheck \/ LimiterTick

SpecLimiter == InitLimiter /\ [][NextLimiter]_vars

(***************************************************************************)
(* parseCommand on its own: commands made of words                          *)
(***************************************************************************)
\* a word of a command: a bare run of characters, or a quoted span
Bare(s) == <<s>>
Quoted(q, inner) == <<q>> \o inner \o <<q>>

\* words.join(" ") as a raw string
RECURSIVE RawOf(_)
RawOf(words) ==
    IF Len(words) = 0 THEN <<>>
    ELSE IF Len(words) = 1 THEN words[1]
    ELSE words[1] \o <<" ">> \o RawOf(Tail(words))

Command(words) == [words |-> words, raw |-> RawOf(words)]

\* the first words of the commands, and the words that follow them
ActionWords ==
    { Bare("search"), Bare("Export"), Bare("export-status"), Bare("STATUS"), Bare("find") }
RestWords ==
    { Bare("--limit"), Bare("--with-contact"), Bare("--format"), Bare("7"), Bare("0"),
      Bare("-3"), Bare("0.5"), Bare("xlsx"), Bare("HTML"), Bare("a"),
      Quoted(SQUOTE, <<"a", " ", "b">>), Quoted(DQUOTE, <<" ", " ">>),
      Quoted(DQUOTE, <<" ", "x", " ">>) }

\* the sequences of at most n words of set S
WordSeqs(S, n) == UNION { [1..k -> S] : k \in 0..n }

\* every command of an action word and at most MaxWords more words
WordCommands ==
    { Command(<<a>> \o ws) : a \in ActionWords, ws \in WordSeqs(RestWords, MaxWords) }

\* a flag with its value, a flag without one, or a query word
Units ==
    { <<Bare("a")>>, <<Quoted(SQUOTE, <<"a", " ", "b">>)>>, <<Bare("--with-contact")>>,
      <<Bare("--limit"), Bare("7")>>, <<Bare("--limit"), Bare("9")>>,
      <<Bare("--limit"), Bare("0.5")>>,
      <<Bare("--format"), Bare("html")>>, <<Bare("--format"), Bare("CSV")>> }

RECURSIVE Flatten(_)
Flatten(seqs) == IF Len(seqs) = 0 THEN <<>> ELSE Head(seqs) \o Flatten(Tail(seqs))

\* every search and export command of at most MaxUnits units
UnitCommands ==
    { Command(<<a>> \o Flatten(us)) :
        a \in {Bare("search"), Bare("export")}, us \in WordSeqs(Units, MaxUnits) }

\* export 'a b' --format html --limit 9 --with-contact, and the same units in
\* every other order
ExampleUnits ==
    << <<Quoted(SQUOTE, <<"a", " ", "b">>)>>, <<Bare("--format"), Bare("html")>>,
       <<Bare("--limit"), Bare("9")>>, <<Bare("--with-contact")>> >>
ExampleCommands ==
    { Command(<<Bare("export")>> \o Flatten([i \in 1..4 |-> ExampleUnits[p[i]]])) :
        p \in { q \in [1..4 -> 1..4] : \A i, j \in 1..4 : q[i] = q[j] => i = j } }

\* a query word and one flag given twice, in both orders:
\* export a --limit 7 --limit 9, export a --format CSV --format html, ...
RepeatedFlagCommands ==
    { Command(<<a, Bare("a")>> \o u1 \o u2) :
        a \in {Bare("search"), Bare("export")},
        u1 \in { u \in Units : Len(u) = 2 },
        u2 \in { u \in Units : Len(u) = 2 } }

\* strings with no token, and a command with white space around its words
BlankCommands ==
    { [words |-> <<>>, raw |-> <<>>],
      [words |-> <<>>, raw |-> <<" ", " ", " ">>],
      [words |-> <<>>, raw |-> <<"\t", " ">>],
      [words |-> <<>>, raw |-> <<DQUOTE, DQUOTE>>],
      [words |-> <<Bare("search"), Bare("a")>>,
       raw |-> <<" ", "search", "\t", " ", "a", " ">>] }

ParserInputs ==
    WordCommands \cup UnitCommands \cup RepeatedFlagCommands \cup ExampleCommands
    \cup BlankCommands

ParserRawConfigs == { RawConfig(Undefined, Undefined, Undefined, Undefined, Undefined) }

InitParser == \E raw \in ParserRawConfigs : InitWith(Api(raw, NoEnv))

\* parseCommand(raw) is called once
Parse ==
    /\ parseResult = NoParse
    /\ \E c \in ParserInputs :
          /\ parseInput' = c
          /\ parseResult' = parse(c.raw)
    /\ UNCHANGED <<startupVars, textVars, twin, cfg, now, limiterVars, handlerVars, sent,
                   exportLog, requestVars>>

NextParser == Parse

SpecParser == InitParser /\ [][NextParser]_vars

(***************************************************************************)
(* doExport on its own, from the capabilities it was given to the request   *)
(* it hands to http.request                                                 *)
(***************************************************************************)

\* the arguments of the export tool: limits above MAX_LIMIT and an omitted
\* format among them
ExportArgs ==
    { ToolArgs("export", q, l, wc, f, "")
      : q \in {"saas", "b2b"}, l \in {Undefined, Num10(600000), Num10(9999990)},
        wc \in BOOLEAN, f \in {NULL, "html"} }

\* the capabilities doExport is given: safe and contact fields allowed
ExportCapabilities ==
    { [t |-> "object", field_allowlist |-> a] : a \in {x \in Allowlists : "phone1" \in x} }

ExportRawConfigs == { RawConfig(Undefined, Undefined, Undefined, Undefined, Undefined) }

InitExport == \E raw \in ExportRawConfigs : InitWith(Api(raw, NoEnv))

\* doExport(args) runs from the capabilities to its call of http.request: the
\* request body and the Idempotency-Key header are logged
BuildExport ==
    /\ Len(exportLog) < MaxExports
    /\ \E args \in ExportArgs, caps \in ExportCapabilities, suffix \in Suffixes :
          LET h == WithCapabilities(args, caps, suffix)
          IN  /\ h.pc = "main"
              /\ exportLog' = Append(exportLog,
                                     [args |-> args, method |-> h.req.method,
                                      path |-> h.req.path, body |-> h.req.body,
                                      idempotencyKey |-> h.req.idempotencyKey])
    /\ UNCHANGED <<startupVars, parserVars, textVars, twin, cfg, now, limiterVars,
                   handlerVars, sent, requestVars>>

NextExport == BuildExport

SpecExport == InitExport /\ [][NextExport]_vars

(***************************************************************************)
(* registerOrbioPlugin on its own: the api object is drawn when the host    *)
(* calls it, and the tools exist only if readConfig did not throw           *)
(***************************************************************************)

\* before registerOrbioPlugin is called there is no api object and no cfg
NoApi == Api([baseUrl |-> NULL, apiKey |-> NULL], NoEnv)
NoConfig ==
    [workspaceId |-> NULL, timeoutMs |-> 0, maxRequestsPerMinute |-> 0, retryCount |-> 0,
     retryBackoffMs |-> 0, capabilitiesTtlMs |-> 0]

\* what config or env can hold for a credential: nothing, blanks, or a value
Absent == {NULL, " ", "   "}
BaseUrls == Absent \cup {"https://api.orbio.test"}
ApiKeys == Absent \cup {"test-key"}

StartupRawConfig ==
    RawConfig(Num10(10), Num10(10), Num10(300000), Num10(300000), Num10(6000000))
StartupApi(configUrl, configKey, envUrl, envKey) ==
    Api([StartupRawConfig EXCEPT !.baseUrl = configUrl, !.apiKey = configKey],
        [ORBIO_BASE_URL |-> envUrl, ORBIO_API_KEY |-> envKey])

\* the api objects of the startup specification: every one with which
\* readConfig throws, and one with baseUrl in the config and apiKey in the
\* environment
StartupApis ==
    { a \in { StartupApi(cu, ck, eu, ek) : cu \in BaseUrls, ck \in ApiKeys,
                                           eu \in BaseUrls, ek \in ApiKeys } :
         readConfigError(a) # NULL }
    \cup { StartupApi("https://api.orbio.test", NULL, NULL, "test-key") }

\* registerOrbioPlugin has been called: it threw or it registered the tools
Called == startupError # NULL \/ registered # {}

InitStartup ==
    /\ api = NoApi
    /\ registered = {}
    /\ startupError = NULL
    /\ parseInput = NoCommand
    /\ parseResult = NoParse
    /\ failure = NoFailure
    /\ errorMessage = NULL
    /\ twin = NoTwin
    /\ cfg = NoConfig
    /\ now = 0
    /\ events = [k \in Keys |-> <<>>]
    /\ checkLog = <<>>
    /\ capabilitiesCache = NoCache
    /\ invocations = 0
    /\ pc = "idle"
    /\ call = NoCall
    /\ capsFrom = NoCapsFrom
    /\ sel = NoSelection
    /\ outcome = NoOutcome
    /\ sent = <<>>
    /\ exportLog = <<>>
    /\ req = NoRequest
    /\ attempt = 0
    /\ rpc = "none"
    /\ fetches = 0
    /\ sleeps = <<>>
    /\ outcomes = <<>>
    /\ reqResult = NoResult
    /\ timers = {}

\* registerOrbioPlugin(a) is called: readConfig throws, or the four tools are
\* registered
Register ==
    /\ ~Called
    /\ \E a \in StartupApis :
          /\ api' = a
          /\ IF readConfigError(a) # NULL
             THEN /\ startupError' = readConfigError(a)
                  /\ UNCHANGED <<registered, cfg>>
             ELSE /\ startupError' = NULL
                  /\ registered' = Tools
                  /\ cfg' = readConfig(a.config)
    /\ UNCHANGED <<parserVars, textVars, twin, now, limiterVars, handlerVars, sent,
                   exportLog, requestVars>>

NextStartup == Register \/ Invoke \/ RequestStep

SpecStartup == InitStartup /\ [][NextStartup]_vars

(***************************************************************************)
(* C1                                                                       *)
(***************************************************************************)
\* the successful checks of checkLog[j]'s key made before it and no more than
\* 60 seconds before it
AdmittedBefore(j) ==
    { i \in 1..(j - 1) : /\ checkLog[i].key = checkLog[j].key
                         /\ checkLog[i].ok
                         /\ checkLog[j].at - checkLog[i].at <= 60000 }

\* C1: for every key and limit L >= 1, a check succeeds while fewer than L
\* checks of its key succeeded within the 60 seconds before it, and otherwise
\* fails with retryAfterSeconds >= 1; so at most L checks of one key succeed in
\* any trailing 60-second window
C1_LimiterAdmitsAtMostLimitPerWindow ==
    \A j \in 1..Len(checkLog) :
        LET L == cfg.maxRequestsPerMinute
        IN  /\ L >= 1
            /\ Cardinality(AdmittedBefore(j)) < L => checkLog[j].ok
            /\ Cardinality(AdmittedBefore(j)) >= L =>
                   ~checkLog[j].ok /\ checkLog[j].retryAfterSec >= 1
            /\ Cardinality(AdmittedBefore(j)) + (IF checkLog[j].ok THEN 1 ELSE 0) <= L

\* C1 witness: with limit 2, two checks of a key succeeded and the third,
\* within 60 seconds of both, was rejected with a positive retry hint
C1_Witness ==
    /\ cfg.maxRequestsPerMinute = 2
    /\ \E j \in 1..Len(checkLog) :
          /\ Cardinality(AdmittedBefore(j)) = 2
          /\ ~checkLog[j].ok
          /\ checkLog[j].retryAfterSec >= 1
          /\ checkLog[j].at > checkLog[1].at

(***************************************************************************)
(* C2, C3, C8, C9: the retry loop                                          *)
(***************************************************************************)
\* how an attempt ended, in the claims' terms; a response whose body could not
\* be read ended in a network-level error (a 204's body is never read)
EndedAs(out) ==
    CASE out.kind = "abort" -> "timeout"
      [] out.kind = "network" -> "network"
      [] out.kind = "error" -> "other"
      [] out.response.status = 204 -> "2xx"
      [] out.response.body.raw = "broken" -> "network"
      [] out.response.status >= 500 -> "5xx"
      [] out.response.status >= 400 -> "4xx"
      [] OTHER -> "2xx"

FailedTransiently(out) == EndedAs(out) \in {"5xx", "timeout", "network"}

RequestOver == rpc \in {"returned", "thrown"}

AllFailedTransiently == \A i \in 1..Len(outcomes) : FailedTransiently(outcomes[i])

\* C2: one request() call issues at most retryCount + 1 fetch attempts, and
\* exactly retryCount + 1 when every attempt failed transiently
C2_AttemptsBoundedByRetryCount ==
    /\ fetches <= cfg.retryCount + 1
    /\ Len(sent) = fetches
    /\ RequestOver /\ AllFailedTransiently => fetches = cfg.retryCount + 1

\* C2 witness: with retryCount 3, a call ended after four attempts that
\* failed in three different transient ways
C2_Witness ==
    /\ cfg.retryCount = 3
    /\ RequestOver
    /\ fetches = 4
    /\ AllFailedTransiently
    /\ {EndedAs(outcomes[i]) : i \in 1..Len(outcomes)} = {"5xx", "timeout", "network"}

\* C9: when all retryCount + 1 attempts failed transiently, request() raises
\* an ApiError describing the last attempt: status, request id and Retry-After
\* of the last 5xx response; status 0, TIMEOUT and the timeout detail after an
\* abort; status 0 and NETWORK_ERROR after a network-level failure
C9_ExhaustedErrorDescribesLastAttempt ==
    RequestOver /\ AllFailedTransiently /\ Len(outcomes) = cfg.retryCount + 1 =>
        LET last == outcomes[Len(outcomes)]
            error == reqResult.error
        IN  /\ rpc = "thrown"
            /\ error.type = "OrbioApiError"
            /\ CASE EndedAs(last) = "5xx" ->
                        /\ error.status = last.response.status
                        /\ error.requestId = last.response.requestId
                        /\ error.retryAfter = last.response.retryAfter
                 [] EndedAs(last) = "timeout" ->
                        /\ error.status = 0
                        /\ error.code = "TIMEOUT"
                        /\ error.detail = "Request timed out after "
                                              \o ToString(cfg.timeoutMs) \o " ms."
                 [] OTHER ->
                        /\ error.status = 0
                        /\ error.code = "NETWORK_ERROR"

\* C9 witness: a 500 without headers, then a 503 with request id and
\* Retry-After as the last attempt, whose values the error carries
C9_Witness ==
    /\ cfg.retryCount = 1
    /\ rpc = "thrown"
    /\ Len(outcomes) = 2
    /\ outcomes[1].kind = "response" /\ outcomes[1].response.status = 500
    /\ outcomes[2].kind = "response" /\ outcomes[2].response.status = 503
    /\ reqResult.error.status = 503
    /\ reqResult.error.requestId = "req-503"
    /\ reqResult.error.retryAfter = "5"

\* an attempt answered with a 4xx status
Answered4xx(out) ==
    /\ out.kind = "response"
    /\ out.response.status >= 400
    /\ out.response.status <= 499

\* C3: a further attempt is made only after an attempt that ended in a status
\* >= 500, a timeout/abort or a network-level error; an attempt answered with
\* a 4xx status is the last attempt and its ApiError is raised at once
C3_OnlyTransientFailuresAreRetried ==
    \A i \in 1..Len(outcomes) :
        /\ i > 1 => FailedTransiently(outcomes[i - 1])
        /\ Answered4xx(outcomes[i]) =>
               /\ i = Len(outcomes)
               /\ fetches = i
               /\ rpc = "thrown"
               /\ reqResult.error.type = "OrbioApiError"
               /\ reqResult.error.status = outcomes[i].response.status
               /\ reqResult.error.requestId = outcomes[i].response.requestId

\* the payload the claims expect of a 2xx response: its parsed JSON, or an
\* empty object for a 204 and for a body that is blank or not JSON
ParsedPayload(response) ==
    IF response.status = 204 \/ response.body.raw # "json"
    THEN [t |-> "object"]
    ELSE response.body.value

OptedIn ==
    IF call.tool = "orbio_command"
    THEN "--with-contact" \in Range(call.input.raw)
    ELSE call.input.args.with_contact

\* the capabilities the invocation in progress works with: the cached snapshot
\* it found fresh, or the one it fetched
CapabilitiesInEffect ==
    IF capsFrom.src = "cache" THEN capsFrom.cache.value ELSE capabilitiesCache.value

AllowlistInEffect ==
    IF "field_allowlist" \in DOMAIN CapabilitiesInEffect
    THEN CapabilitiesInEffect.field_allowlist ELSE {}

ContactFieldNames == Range(CONTACT_FIELDS)
SafeFieldNames == Range(SAFE_DEFAULT_FIELDS)

SearchOrExportSent == {i \in 1..Len(sent) : sent[i].kind \in {"search", "export"}}

\* C4: in every search or export request sent, output.fields is a subset of
\* the capabilities allowlist; it holds a contact field only if the invocation
\* opted in and the allowlist has that field; without opt-in it holds only
\* allowlisted safe default fields
C4_RequestedFieldsWithinAllowlist ==
    \A i \in SearchOrExportSent :
        LET fields == Range(sent[i].body.output.fields)
        IN  /\ fields \subseteq AllowlistInEffect
            /\ \A f \in fields \cap ContactFieldNames : OptedIn /\ f \in AllowlistInEffect
            /\ ~OptedIn => fields \subseteq SafeFieldNames \cap AllowlistInEffect

\* C4 witness: an opted-in request whose fields include the allowlisted email
\* and phone1 but not the allowlisted field that is neither safe nor contact
C4_Witness ==
    \E i \in SearchOrExportSent :
        /\ OptedIn
        /\ {"email", "phone1"} \subseteq Range(sent[i].body.output.fields)
        /\ "internal_score" \in AllowlistInEffect
        /\ "internal_score" \notin Range(sent[i].body.output.fields)

\* C5: when the limiter rejected the invocation, no HTTP request was issued
\* for it and it returned the rate-limit message with the retry seconds
C5_RejectedInvocationSendsNothing ==
    invocations > 0 /\ ~call.admitted =>
        /\ sent = <<>>
        /\ fetches = 0
        /\ rpc = "none"
        /\ pc = "done"
        /\ call.retryAfterSec \in 1..60
        /\ outcome.delivered = "returned"
        /\ outcome.result.content[1].text.line =
               "Rate limited by plugin policy. Retry in ~"
                  \o ToString(call.retryAfterSec) \o "s."

\* C5 witness: a search invocation rejected while the capabilities cache
\* holds a snapshot
C5_Witness ==
    /\ invocations > 0
    /\ ~call.admitted
    /\ call.tool = "orbio_search"
    /\ capabilitiesCache.present
    /\ pc = "done"

\* C6: a handler never lets an error propagate, and when it has completed it
\* has returned exactly one text block
C6_HandlersReturnOneTextBlock ==
    /\ outcome.delivered # "threw"
    /\ pc = "done" =>
          /\ outcome.delivered = "returned"
          /\ Len(outcome.result.content) = 1
          /\ outcome.result.content[1].type = "text"

\* C6 witness: the command handler completed after a non-Error value was
\* thrown inside it
C6_Witness ==
    /\ pc = "done"
    /\ call.tool = "orbio_command"
    /\ call.input.fault = "value"
    /\ outcome.result.content[1].text.line = "Unexpected unknown error."

\* when the snapshot c expires: the start of the fetch that brought it, plus
\* capabilitiesTtlMs
ExpiryOf(c) == c.fetchStartedAt + cfg.capabilitiesTtlMs

CapabilitiesSent == {i \in 1..Len(sent) : sent[i].kind = "capabilities"}

\* C7: a cached capabilities snapshot is used only strictly before its expiry
\* (fetch start + capabilitiesTtlMs) and then no capabilities request is
\* issued; when the snapshot is absent or expired, a capabilities request has
\* completed before the invocation's search/export request is sent
C7_CapabilitiesCacheFreshness ==
    /\ capabilitiesCache.present => capabilitiesCache.expiresAt = ExpiryOf(capabilitiesCache)
    /\ capsFrom.src = "cache" =>
          /\ capsFrom.cache.present
          /\ capsFrom.at < ExpiryOf(capsFrom.cache)
          /\ CapabilitiesSent = {}
    /\ capsFrom.src = "fetch" =>
          /\ ~capsFrom.cache.present \/ capsFrom.at >= ExpiryOf(capsFrom.cache)
          /\ \A i \in SearchOrExportSent :
                /\ \E j \in CapabilitiesSent : j < i
                /\ \A j \in CapabilitiesSent :
                      j < i /\ sent[j].settled /\ sent[j].settledAt <= sent[i].at
                /\ capabilitiesCache.present
                /\ capabilitiesCache.fetchStartedAt = capsFrom.at
    /\ SearchOrExportSent # {} => capsFrom.src \in {"cache", "fetch"}

\* C7 witness: an export request sent on a snapshot fetched 30 seconds
\* earlier, without a capabilities request
C7_Witness ==
    /\ capsFrom.src = "cache"
    /\ capsFrom.at = capsFrom.cache.fetchStartedAt + 30000
    /\ CapabilitiesSent = {}
    /\ \E i \in SearchOrExportSent : sent[i].kind = "export"

\* the account records a returned text shows
AccountsShown ==
    LET json == outcome.result.content[1].text.json
    IN  IF "accounts" \in DOMAIN json THEN Range(json.accounts)
        ELSE IF "preview_accounts" \in DOMAIN json THEN Range(json.preview_accounts)
        ELSE {}

\* C10: for every API response, the account records in the returned text of a
\* search or export carry a contact field only if the invocation opted in
\* and the capabilities allowlist has that field
C10_ShownAccountsCarryOnlyGrantedContact ==
    pc = "done" /\ outcome.delivered = "returned" =>
        \A account \in AccountsShown :
            \A f \in account \cap ContactFieldNames :
                OptedIn /\ f \in AllowlistInEffect

(***************************************************************************)
(* C11, C12: field selection and the masking note                          *)
(***************************************************************************)
\* whether the invocation in progress has its capabilities: the cached
\* snapshot it found fresh, or the one its own fetch brought
CapabilitiesKnown ==
    \/ capsFrom.src = "cache"
    \/ /\ capsFrom.src = "fetch"
       /\ capabilitiesCache.present
       /\ capabilitiesCache.fetchStartedAt = capsFrom.at

SearchOrExportInvocation == call.admitted /\ call.args.kind \in {"search", "export"}

\* C11: when the capabilities allowlist has none of the safe default fields,
\* a search or export invocation ends with the no-safe-fields message and no
\* search/export request is sent, whatever was requested or allowlisted of
\* the contact fields
C11_NoSafeFieldsFailsBeforeAnyRequest ==
    SearchOrExportInvocation /\ CapabilitiesKnown
    /\ AllowlistInEffect \cap SafeFieldNames = {} =>
        /\ pc = "done"
        /\ outcome.delivered = "returned"
        /\ outcome.result.content[1].text.line =
               "Unexpected error: No safe output fields are allowed for this plan."
        /\ SearchOrExportSent = {}

\* C11 witness: an export that opted in to contact fields, on a cached
\* allowlist that holds email and no safe field
C11_Witness ==
    /\ SearchOrExportInvocation
    /\ call.args.kind = "export"
    /\ capsFrom.src = "cache"
    /\ OptedIn
    /\ AllowlistInEffect = {"email"}
    /\ pc = "done"

\* whether the completed invocation returned a rendered search or export text
RenderedSearchOrExport ==
    /\ pc = "done"
    /\ SearchOrExportInvocation
    /\ outcome.delivered = "returned"
    /\ outcome.result.content[1].text.json # NoJson

\* the status phrase of the rendered text, and the note of each renderer
StatusPhrase ==
    IF call.args.kind = "search" THEN "Search completed." ELSE "Export requested."
MaskingNote ==
    IF call.args.kind = "search"
    THEN "\nNote: contact fields are restricted by plan; returning masked fields only."
    ELSE "\nNote: contact fields are restricted by plan; export uses masked fields only."

\* C12: the rendered search/export text has the masking note exactly when
\* contact fields were requested and no contact field is allowlisted; then
\* the selected fields are the allowlisted safe fields only; in every other
\* case the text has no note
C12_MaskingNoteExactlyWhenContactUnavailable ==
    RenderedSearchOrExport =>
        LET text == outcome.result.content[1].text
            masked == OptedIn /\ AllowlistInEffect \cap ContactFieldNames = {}
        IN  /\ masked => /\ text.line = StatusPhrase \o MaskingNote
                         /\ text.json.fields =
                                SelectSeq(SAFE_DEFAULT_FIELDS,
                                          LAMBDA f : f \in AllowlistInEffect)
            /\ ~masked => text.line = StatusPhrase

\* C12 witness: an export that opted in, on an allowlist without contact
\* fields, was rendered with cnpj and legal_name as its fields
C12_Witness ==
    /\ RenderedSearchOrExport
    /\ call.args.kind = "export"
    /\ OptedIn
    /\ AllowlistInEffect = {"cnpj", "legal_name"}
    /\ outcome.result.content[1].text.json.fields = <<"cnpj", "legal_name">>

(***************************************************************************)
(* C13 .. C18: the command parser                                          *)
(***************************************************************************)
\* the token a word stands for: a quoted span without its quotes
TokenOf(word) ==
    IF word[1] \in {DQUOTE, SQUOTE} THEN Str(SubSeq(word, 2, Len(word) - 1))
    ELSE Str(word)

\* the tokens of the command that was parsed, and those after the first
InputTokens == [i \in 1..Len(parseInput.words) |-> TokenOf(parseInput.words[i])]
RestTokens == Tail(InputTokens)

Parsed == parseResult # NoParse
IsExportCommand == Parsed /\ Len(InputTokens) > 0 /\ InputTokens[1] \in {"export", "Export"}
IsSearchCommand == Parsed /\ Len(InputTokens) > 0 /\ InputTokens[1] = "search"
IsSearchOrExportCommand == IsSearchCommand \/ IsExportCommand

\* the numerals of the model that are greater than zero
PositiveNumerals == {"7", "9", "0.5"}

\* position i of the rest holds --limit, followed by no token or by one that
\* is non-numeric, zero or negative
BadLimitAt(i) ==
    /\ RestTokens[i] = "--limit"
    /\ i = Len(RestTokens) \/ RestTokens[i + 1] \notin PositiveNumerals

FailedWith(message) == parseResult.action = "error" /\ parseResult.error = message

\* C13 as stated: every search or export command with a malformed or missing
\* --limit value fails with the invalid-limit error
C13_BadLimitFailsWithInvalidLimit ==
    IsSearchOrExportCommand =>
        \A i \in 1..Len(RestTokens) :
            BadLimitAt(i) => FailedWith("Invalid --limit value. Use an integer >= 1.")

\* C13, amended: every search or export command with a malformed or missing
\* --limit value fails and never falls back to a default limit; the error is
\* the invalid-limit error when the command is a search or no --format token
\* stands before that --limit, and else the invalid-limit or the
\* invalid-format error
C13_BadLimitNeverDefaults ==
    IsSearchOrExportCommand =>
        \A i \in 1..Len(RestTokens) :
            BadLimitAt(i) =>
                /\ \/ FailedWith("Invalid --limit value. Use an integer >= 1.")
                   \/ FailedWith("Invalid --format value. Use csv or html.")
                /\ IsSearchCommand \/ (\A j \in 1..(i - 1) : RestTokens[j] # "--format")
                      => FailedWith("Invalid --limit value. Use an integer >= 1.")

\* C13 witness: an export whose last token is --limit, after a query word
C13_Witness ==
    /\ IsExportCommand
    /\ RestTokens = <<"a", "--limit">>
    /\ FailedWith("Invalid --limit value. Use an integer >= 1.")

\* C14: whenever parse returns a search or export command that carries a
\* limit, the limit is an integer >= 1, whatever numeral followed --limit
C14_ParsedLimitIsPositiveInteger ==
    Parsed /\ parseResult.action \in {"search", "export"}
    /\ parseResult.limit.t = "number" =>
        /\ parseResult.limit.v10 % 10 = 0
        /\ parseResult.limit.v10 >= 10

\* the units of the words after a search (export = FALSE) or export action
\* word: a --limit (for export, also a --format) with the word after it, or
\* one word
RECURSIVE UnitsOf(_, _)
UnitsOf(export, ws) ==
    IF Len(ws) = 0 THEN <<>>
    ELSE IF /\ Len(ws) >= 2
            /\ TokenOf(ws[1]) = "--limit" \/ (export /\ TokenOf(ws[1]) = "--format")
    THEN <<SubSeq(ws, 1, 2)>> \o UnitsOf(export, SubSeq(ws, 3, Len(ws)))
    ELSE <<SubSeq(ws, 1, 1)>> \o UnitsOf(export, Tail(ws))

\* a unit that is a query word: one word that is no flag
IsQueryUnit(export, u) ==
    /\ Len(u) = 1
    /\ TokenOf(u[1]) \notin {"--with-contact", "--limit"}
    /\ ~(export /\ TokenOf(u[1]) = "--format")

InputUnits == UnitsOf(IsExportCommand, Tail(parseInput.words))

Shuffles(n) == { p \in [1..n -> 1..n] : \A i, j \in 1..n : p[i] = p[j] => i = j }

\* the commands that rearrange the parsed one: the same action word and the
\* same units in another order, each flag still next to its value and the
\* query words in their relative order
Rearrangements ==
    LET export == IsExportCommand
        us == InputUnits
        orders == { [i \in 1..Len(us) |-> us[p[i]]] : p \in Shuffles(Len(us)) }
    IN  { Command(<<parseInput.words[1]>> \o Flatten(o)) :
            o \in { r \in orders :
                      /\ UnitsOf(export, Flatten(r)) = r
                      /\ SelectSeq(r, LAMBDA u : IsQueryUnit(export, u))
                           = SelectSeq(us, LAMBDA u : IsQueryUnit(export, u)) } }

ParsedToCommand == IsSearchOrExportCommand /\ parseResult.action \in {"search", "export"}

\* how many units of the parsed command are the given flag with a value
FlagCount(flag) ==
    Cardinality({ i \in 1..Len(InputUnits) :
                    Len(InputUnits[i]) = 2 /\ TokenOf(InputUnits[i][1]) = flag })

ExampleParsed ==
    [action |-> "export", error |-> NULL, queryText |-> "a b", limit |-> Num10(90),
     withContact |-> TRUE, format |-> "html", exportId |-> ""]

\* C15 as stated, for the commands that parse to a ParsedCommand: every
\* rearrangement of the command parses to the same ParsedCommand
C15_ParseIgnoresFlagPositions ==
    ParsedToCommand => \A c \in Rearrangements : parse(c.raw) = parseResult

\* C15, amended: a search or export command that parses to a ParsedCommand
\* and has --limit at most once and --format at most once parses to the same
\* ParsedCommand in every rearrangement; export 'a b' --format html --limit 9
\* --with-contact parses to {export, 'a b', html, 9, withContact}
C15_ParseIgnoresPositionsOfSingleFlags ==
    /\ ParsedToCommand /\ FlagCount("--limit") <= 1 /\ FlagCount("--format") <= 1
          => \A c \in Rearrangements : parse(c.raw) = parseResult
    /\ Parsed /\ parseInput.raw = <<"export", " ", SQUOTE, "a", " ", "b", SQUOTE, " ",
                                    "--format", " ", "html", " ", "--limit", " ", "9",
                                    " ", "--with-contact">>
          => parseResult = ExampleParsed

\* C15 witness: the flags of the example in another order, among its 24
\* rearrangements, with the example's result
C15_Witness ==
    /\ Parsed
    /\ parseInput.raw = <<"export", " ", "--with-contact", " ", "--limit", " ", "9", " ",
                          SQUOTE, "a", " ", "b", SQUOTE, " ", "--format", " ", "html">>
    /\ Cardinality(Rearrangements) = 24
    /\ parseResult = ExampleParsed

\* the action the first token names, in lower case
FirstTokenLowered ==
    CASE InputTokens[1] \in {"search"} -> "search"
      [] InputTokens[1] \in {"export", "Export"} -> "export"
      [] InputTokens[1] \in {"export-status"} -> "export-status"
      [] InputTokens[1] \in {"STATUS"} -> "status"
      [] OTHER -> InputTokens[1]

UsageLines ==
    "Usage:\n/orbio search <query> [--limit N] [--with-contact]\n"
    \o "/orbio export <query> [--limit N] [--format csv|html] [--with-contact]\n"
    \o "/orbio export-status <export_id>"

\* a token without the white space around it
Trimmed(token) == IF token \in {" ", "  "} THEN "" ELSE IF token = " x " THEN "x" ELSE token

\* C16: the first token selects the action whatever its letter case: no
\* token gives the usage error; search and export give their command, or one
\* of their own errors; export-status and status give the export-status
\* command with the next token (without the white space around it) as the id,
\* or the missing-export-id error when that token is absent or blank; any
\* other first token gives the unknown-command error with the usage text
C16_FirstTokenSelectsAction ==
    Parsed =>
        IF Len(InputTokens) = 0 THEN FailedWith(UsageLines)
        ELSE IF FirstTokenLowered \in {"search", "export"}
        THEN \/ parseResult.action = FirstTokenLowered
             \/ FailedWith("Invalid --limit value. Use an integer >= 1.")
             \/ FailedWith("Invalid --format value. Use csv or html.")
             \/ FailedWith("Missing query text.\n\n" \o UsageLines)
        ELSE IF FirstTokenLowered \in {"export-status", "status"}
        THEN IF Len(RestTokens) = 0 \/ Trimmed(RestTokens[1]) = ""
             THEN FailedWith("Missing export_id. Use: /orbio export-status <export_id>")
             ELSE /\ parseResult.action = "export-status"
                  /\ parseResult.exportId = Trimmed(RestTokens[1])
        ELSE FailedWith("Unknown command: " \o FirstTokenLowered \o "\n\n" \o UsageLines)

\* C16 witness: STATUS followed by a quoted id with blanks around it, and a
\* further token
C16_Witness ==
    /\ Parsed
    /\ Len(InputTokens) = 3
    /\ InputTokens[1] = "STATUS"
    /\ InputTokens[2] = " x "
    /\ parseResult.action = "export-status"
    /\ parseResult.exportId = "x"

\* the positions of the rest that hold --format
FormatPositions == { i \in 1..Len(RestTokens) : RestTokens[i] = "--format" }

\* csv or html in any letter case, and its lower-cased form
FormatValues == {"csv", "CSV", "html", "HTML"}
LoweredFormat(token) == IF token \in {"csv", "CSV"} THEN "csv" ELSE "html"

\* position i holds --format, followed by no token or by one that is neither
\* csv nor html
BadFormatAt(i) ==
    /\ RestTokens[i] = "--format"
    /\ i = Len(RestTokens) \/ RestTokens[i + 1] \notin FormatValues

ParsedToExport == IsExportCommand /\ parseResult.action = "export"

\* C17 as stated: an export command's format is csv when --format is absent
\* and the lower-cased value when the token after --format is csv or html;
\* any other value and a missing value fail with the invalid-format error
C17_FormatOfExport ==
    IsExportCommand =>
        /\ ParsedToExport /\ FormatPositions = {} => parseResult.format = "csv"
        /\ \A i \in FormatPositions :
              /\ ParsedToExport /\ i < Len(RestTokens) /\ RestTokens[i + 1] \in FormatValues
                    => parseResult.format = LoweredFormat(RestTokens[i + 1])
              /\ BadFormatAt(i) => FailedWith("Invalid --format value. Use csv or html.")

\* C17, amended: an export command that parses to a ParsedCommand has format
\* csv when --format is absent, and else the lower-cased value of its last
\* --format, which is csv or html in any letter case; a --format followed by
\* any other value or by nothing makes parsing fail, with the invalid-format
\* error when no --limit token stands before it and else with the
\* invalid-format or the invalid-limit error; the invalid-format error has no
\* other cause
C17_FormatOfExportLastWins ==
    IsExportCommand =>
        /\ ParsedToExport /\ FormatPositions = {} => parseResult.format = "csv"
        /\ ParsedToExport /\ FormatPositions # {} =>
              LET last == CHOOSE i \in FormatPositions : \A j \in FormatPositions : j <= i
              IN  /\ last < Len(RestTokens)
                  /\ RestTokens[last + 1] \in FormatValues
                  /\ parseResult.format = LoweredFormat(RestTokens[last + 1])
        /\ \A i \in FormatPositions :
              BadFormatAt(i) =>
                  /\ \/ FailedWith("Invalid --format value. Use csv or html.")
                     \/ FailedWith("Invalid --limit value. Use an integer >= 1.")
                  /\ (\A j \in 1..(i - 1) : RestTokens[j] # "--limit")
                        => FailedWith("Invalid --format value. Use csv or html.")
        /\ FailedWith("Invalid --format value. Use csv or html.")
              => \E i \in FormatPositions : BadFormatAt(i)

\* C17 witness: an export with --format CSV before its query word
C17_Witness ==
    /\ ParsedToExport
    /\ RestTokens = <<"--format", "CSV", "a">>
    /\ parseResult.format = "csv"

\* the tokens of the parsed command that are neither a recognised flag nor a
\* value consumed by one, in their order
QueryTokens ==
    LET export == IsExportCommand
        queries == SelectSeq(InputUnits, LAMBDA u : IsQueryUnit(export, u))
    IN  [i \in 1..Len(queries) |-> TokenOf(queries[i][1])]

\* tokens joined by single spaces
RECURSIVE JoinedBySpaces(_)
JoinedBySpaces(tokens) ==
    IF Len(tokens) = 0 THEN ""
    ELSE IF Len(tokens) = 1 THEN tokens[1]
    ELSE tokens[1] \o " " \o JoinedBySpaces(Tail(tokens))

\* tokens without the blank ones at the two ends
RECURSIVE WithoutBlankEnds(_)
WithoutBlankEnds(tokens) ==
    IF Len(tokens) = 0 THEN tokens
    ELSE IF Trimmed(tokens[1]) = "" THEN WithoutBlankEnds(Tail(tokens))
    ELSE IF Trimmed(tokens[Len(tokens)]) = ""
    THEN WithoutBlankEnds(SubSeq(tokens, 1, Len(tokens) - 1))
    ELSE tokens

\* the joined tokens without the white space at the two ends of the text
JoinedAndTrimmed(tokens) ==
    LET core == WithoutBlankEnds(tokens)
        n == Len(core)
    IN  IF n = 0 THEN ""
        ELSE IF n = 1 THEN Trimmed(core[1])
        ELSE JoinedBySpaces([i \in 1..n |->
                                IF i = 1 THEN (IF core[1] = " x " THEN "x " ELSE core[1])
                                ELSE IF i = n THEN (IF core[n] = " x " THEN " x" ELSE core[n])
                                ELSE core[i]])

MissingQueryText == "Missing query text.\n\n" \o UsageLines

\* C18 as stated: the query text of a search or export is exactly its query
\* tokens joined by single spaces, and when that text is empty after trimming
\* parsing fails with the missing-query-text error and the usage text
C18_QueryTextIsJoinedTokens ==
    IsSearchOrExportCommand =>
        /\ ParsedToCommand => parseResult.queryText = JoinedBySpaces(QueryTokens)
        /\ JoinedAndTrimmed(QueryTokens) = "" => FailedWith(MissingQueryText)

\* C18, amended: when no flag of a search or export command fails, the query
\* text is its query tokens joined by single spaces in their order, without
\* the white space at the two ends of the joined text, a --format and its
\* value being query tokens of a search; when that text is empty, parsing
\* fails with the missing-query-text error and the usage text
C18_QueryTextIsTrimmedJoinedTokens ==
    IsSearchOrExportCommand
    /\ ~FailedWith("Invalid --limit value. Use an integer >= 1.")
    /\ ~FailedWith("Invalid --format value. Use csv or html.") =>
        IF JoinedAndTrimmed(QueryTokens) = "" THEN FailedWith(MissingQueryText)
        ELSE /\ parseResult.action = FirstTokenLowered
             /\ parseResult.queryText = JoinedAndTrimmed(QueryTokens)

\* C18 witness: a search whose query text holds --format and its value
C18_Witness ==
    /\ IsSearchCommand
    /\ RestTokens = <<"--format", "CSV", "a b">>
    /\ parseResult.action = "search"
    /\ parseResult.queryText = "--format CSV a b"


(***************************************************************************)
(* C19: the Idempotency-Key of an export                                    *)
(***************************************************************************)

\* the header is openclaw:export:<content hash>:<suffix>
HasExportKeyForm(key) ==
    /\ key.namespace = "openclaw"
    /\ key.prefix = "export"
    /\ key.digest.hexChars = DIGEST_HEX_CHARS
    /\ key.suffix \in Suffixes

\* two keys differ in nothing but the suffix
SameButSuffix(k1, k2) == [k1 EXCEPT !.suffix = k2.suffix] = k2

\* the request bodies of two exports are identical: query text, clamped
\* limit, format and fields
SameBody(e1, e2) ==
    /\ e1.body.query_text = e2.body.query_text
    /\ e1.body.limit = e2.body.limit
    /\ e1.body.output.format = e2.body.output.format
    /\ e1.body.output.fields = e2.body.output.fields

Blank(value) == value \in Absent
NoBaseUrl == Blank(api.config.baseUrl) /\ Blank(api.env.ORBIO_BASE_URL)
NoApiKey == Blank(api.config.apiKey) /\ Blank(api.env.ORBIO_API_KEY)

\* no handler exists and nothing of the plugin has run or been sent
NothingRegisteredOrSent ==
    /\ registered = {}
    /\ invocations = 0
    /\ pc = "idle"
    /\ outcome = NoOutcome
    /\ sent = <<>>
    /\ rpc = "none"
    /\ fetches = 0
    /\ timers = {}

\* C20: when neither the config nor the environment supplies a non-blank
\* baseUrl, or a non-blank apiKey, registerOrbioPlugin throws, and it names
\* baseUrl whenever baseUrl is missing (baseUrl is checked first); no tool is
\* registered, no handler ever runs and no HTTP request is ever made
C20_MissingCredentialFailsStartup ==
    (Called /\ (NoBaseUrl \/ NoApiKey)) =>
       /\ startupError \in {"Missing plugin config: baseUrl",
                            "Missing plugin config: apiKey"}
       /\ NoBaseUrl => startupError = "Missing plugin config: baseUrl"
       /\ NothingRegisteredOrSent

\* registerOrbioPlugin was called with blanks for baseUrl in the config and in
\* the environment, and with no apiKey either, and threw for baseUrl
C20_Witness ==
    /\ Called
    /\ api.config.baseUrl = " "
    /\ api.env.ORBIO_BASE_URL = "   "
    /\ NoApiKey
    /\ startupError = "Missing plugin config: baseUrl"
    /\ registered = {}


(***************************************************************************)
(* errorText on its own: request() is answered with a failure at its last   *)
(* attempt, throws, and runGuarded's catch turns the error into a text      *)
(***************************************************************************)
\* codes an error response may carry, NULL for none
ErrorCodes ==
    { NULL, "rate_limit_exceeded", "RATE_LIMIT_EXCEEDED", "quota_exceeded",
      "authentication_required", "authentication_invalid", "authentication_disabled",
      "authentication_expired", "invalid_spec", "query_too_broad",
      "dependency_unavailable", "not_found" }

ErrorStatuses == {400, 401, 403, 422, 429, 500, 503}

\* response.headers.get(name): null without the header, else its value,
\* which may be the empty string
RequestIdHeaders == {NULL, "", "req-1"}
RetryAfterHeaders == {NULL, "", "8"}

ProblemBody(code) ==
    IF code = NULL
    THEN JsonBody([t |-> "object", detail |-> StringValue("bad request")])
    ELSE JsonBody([t |-> "object", code |-> StringValue(code),
                   detail |-> StringValue("bad request")])

\* an object with one more property, unless the value is undefined
WithProperty(o, name, value) == IF value.t = "undefined" THEN o ELSE o @@ (name :> value)

\* values of the properties parseProblem reads: absent, a string (possibly
\* empty), or not a string
TopCodes == {Undefined, StringValue("top"), Num10(70)}
TopDetails == {Undefined, StringValue("fallback detail"), StringValue(""), JsonNull}
NestedCodes == {Undefined, StringValue("nested"), Num10(70)}
NestedMessages == {Undefined, StringValue("nested message"), StringValue(""), JsonNull}

NestedErrors ==
    { Undefined, JsonNull, StringValue("boom"), EmptyArray }
    \cup { WithProperty(WithProperty(EmptyObject, "code", c), "message", m)
           : c \in NestedCodes, m \in NestedMessages }

\* error bodies: JSON objects, JSON texts that are no objects, and texts
\* that are empty, blank or not JSON
ProblemPayloads ==
    { WithProperty(WithProperty(WithProperty(EmptyObject, "code", c), "detail", d),
                   "error", e)
      : c \in TopCodes, d \in TopDetails, e \in NestedErrors }

ProblemBodies ==
    { JsonBody(p) : p \in ProblemPayloads }
    \cup { JsonBody(JsonNull), JsonBody(Num10(70)), JsonBody(StringValue("oops")),
           JsonBody(EmptyArray),
           Body("empty", JsonNull), Body("blank", JsonNull), Body("nonjson", JsonNull) }

FailingResponses ==
    { Response(st, id, ra, ProblemBody(code))
      : st \in ErrorStatuses, id \in RequestIdHeaders, ra \in RetryAfterHeaders,
        code \in ErrorCodes }
    \cup { Response(st, id, NULL, Body("nonjson", JsonNull))
           : st \in ErrorStatuses, id \in RequestIdHeaders }
    \cup { Response(st, "req-1", NULL, body) : st \in {400, 502}, body \in ProblemBodies }

FailingOutcomes ==
    { ResponseOutcome(r) : r \in FailingResponses }
    \cup { RejectOutcome("abort"), RejectOutcome("network") }

InitErrorText == \E raw \in PluginRawConfigs : InitWith(Api(raw, NoEnv))

\* the last attempt of request() ends with out and throws; errorText(error)
ExplainFailure ==
    /\ failure = NoFailure
    /\ \E out \in FailingOutcomes :
          LET end == attemptEnd(out, cfg, cfg.retryCount)
          IN  /\ end.next = "throw"
              /\ failure' = [response |-> out.response, error |-> end.error]
              /\ errorMessage' = errorText(end.error)
    /\ UNCHANGED <<startupVars, parserVars, twin, cfg, now, limiterVars, handlerVars,
                   sent, exportLog, requestVars>>

NextErrorText == ExplainFailure

SpecErrorText == InitErrorText /\ [][NextErrorText]_vars

(***************************************************************************)
(* C21: errorText classifies an API error by the first matching rule        *)
(***************************************************************************)
ErrorClasses ==
    {"rate_limit", "quota", "authentication", "invalid_query", "dependency", "generic"}

\* the codes of the model that begin with authentication_
AuthenticationCodes == { c \in ErrorCodes \ {NULL} :
                           c \in {"authentication_required", "authentication_invalid",
                                  "authentication_disabled", "authentication_expired"} }

\* the ladder as stated: the first rule that matches status or code
ClassOf(error, authenticationCodes) ==
    LET code == Lower(IF error.code = NULL THEN "" ELSE error.code)
    IN  IF error.status = 429 \/ code = "rate_limit_exceeded" THEN "rate_limit"
        ELSE IF code = "quota_exceeded" THEN "quota"
        ELSE IF code \in authenticationCodes \/ error.status = 401 THEN "authentication"
        ELSE IF code \in {"invalid_spec", "query_too_broad"} \/ error.status = 422
        THEN "invalid_query"
        ELSE IF code = "dependency_unavailable" \/ error.status >= 500 THEN "dependency"
        ELSE "generic"

ClassBase(class, error) ==
    CASE class = "rate_limit" -> "Orbio rate limit exceeded."
      [] class = "quota" -> "Orbio quota exceeded for this API key/workspace."
      [] class = "authentication" -> "Orbio authentication failed. Check plugin apiKey."
      [] class = "invalid_query" ->
            "Query is invalid or too broad. Narrow filters and retry."
      [] class = "dependency" ->
            "Orbio dependency is temporarily unavailable. Retry shortly."
      [] OTHER -> "Orbio API error: " \o error.detail

RetryParts == {""} \cup { " Retry-After=" \o ra \o "s." : ra \in RetryAfterHeaders \ {NULL} }
RequestIdParts == {""} \cup { " (request_id=" \o id \o ")" : id \in RequestIdHeaders \ {NULL} }

\* the texts of one class: its message, with or without the two optional parts
ClassMessages(class, error) ==
    { ClassBase(class, error) \o r \o s
      : r \in (IF class = "rate_limit" THEN RetryParts ELSE {""}), s \in RequestIdParts }

\* C21: every API error is mapped to the message of exactly one class, the
\* first in the order rate limit (429 or rate_limit_exceeded), quota
\* (quota_exceeded), authentication (an authentication_* code or 401), invalid
\* query (invalid_spec, query_too_broad or 422), dependency
\* (dependency_unavailable or status >= 500), generic ('Orbio API error:
\* <detail>') whose rule matches
C21_FirstMatchingRule ==
    failure.error.type = "OrbioApiError" =>
        \A class \in ErrorClasses :
            errorMessage \in ClassMessages(class, failure.error)
                <=> class = ClassOf(failure.error, AuthenticationCodes)

\* the same ladder with the three authentication codes the code names
C21_FirstMatchingRuleOfNamedCodes ==
    failure.error.type = "OrbioApiError" =>
        \A class \in ErrorClasses :
            errorMessage \in ClassMessages(class, failure.error)
                <=> class = ClassOf(failure.error,
                                    {"authentication_required", "authentication_invalid",
                                     "authentication_disabled"})

\* an error whose code begins with authentication_ and is none of the three
\* was classified
C21_Witness ==
    /\ failure.error.type = "OrbioApiError"
    /\ failure.error.code = "authentication_expired"
    /\ failure.error.status = 403
    /\ errorMessage = "Orbio API error: bad request (request_id=req-1)"


(***************************************************************************)
(* C22: Retry-After and the request id in API-error messages                *)
(***************************************************************************)
\* the value headers.get(name) gave for the failing response, NULL when
\* request() failed without a response
HeaderOf(f, name) == f.response[name]

\* the texts that show request id id (NULL: none) and, in the rate-limit
\* message only, Retry-After value ra (NULL: none)
MessagesShowing(error, id, ra) ==
    { ClassBase(class, error)
      \o (IF class = "rate_limit" /\ ra # NULL THEN " Retry-After=" \o ra \o "s." ELSE "")
      \o (IF id # NULL THEN " (request_id=" \o id \o ")" ELSE "")
      : class \in ErrorClasses }

NonEmpty(header) == IF header = "" THEN NULL ELSE header

C23_BodilessSuccessReturnsEmptyObject ==
    \A i \in 1..Len(outcomes) :
        (/\ outcomes[i].kind = "response"
         /\ IsOk(outcomes[i].response)
         /\ \/ outcomes[i].response.status = 204
            \/ outcomes[i].response.body.raw \in {"empty", "blank", "nonjson"})
        => /\ i = Len(outcomes)
           /\ fetches = i
           /\ Len(sleeps) = i - 1
           /\ rpc = "returned"
           /\ reqResult.payload = EmptyObject
           /\ reqResult.error = NoError

\* the first attempt received a 200 whose body is not JSON, and request()
\* returned {}
C23_Witness ==
    /\ rpc = "returned"
    /\ fetches = 1
    /\ Len(outcomes) = 1
    /\ outcomes[1].response.status = 200
    /\ outcomes[1].response.body.raw = "nonjson"
    /\ reqResult.payload = EmptyObject
    /\ reqResult.error = NoError


(***************************************************************************)
(* Two plugin instances side by side: orbio_command on the first, and the   *)
(* direct tool with the parsed arguments on the second, at the same         *)
(* instants and with the same API answers                                   *)
(***************************************************************************)
\* commands that parse
TwinCommands ==
    { <<"search", " ", "saas">>,
      <<"SEARCH", " ", DQUOTE, "software", " ", "b2b", DQUOTE, " ", "--limit", " ", "7",
        " ", "--with-contact">>,
      <<"export", " ", "saas", " ", "--format", " ", "html">>,
      <<"export", " ", "saas", " ", "--with-contact", " ", "--limit", " ", "9">>,
      <<"status", " ", "exp-123">> }

\* the direct tool that corresponds to a parsed command
DirectTool(parsed) ==
    CASE parsed.action = "search" -> "orbio_search"
      [] parsed.action = "export" -> "orbio_export"
      [] OTHER -> "orbio_export_status"

\* the parsed arguments, as the direct tool's input
DirectArgs(parsed) ==
    ToolArgs(parsed.action, parsed.queryText, parsed.limit, parsed.withContact,
             parsed.format, parsed.exportId)

\* idle times that leave a cached snapshot fresh, and that let it expire
TwinIdleDelays == {30000, 300000}

\* the answers of the API in this specification: of each endpoint's answers,
\* the 200s with a JSON body (for capabilities, one that grants contact fields
\* and one that does not) and the 503
TwinResponses(kind) ==
    { r \in Responses(kind) :
        \/ r.status = 503
        \/ /\ r.status = 200
           /\ r.body.raw = "json"
           /\ kind = "capabilities" => Cardinality(r.body.value.field_allowlist) # 1 }

InitTwin == \E raw \in PluginRawConfigs : InitWith(Api(raw, NoEnv))

\* both handlers are invoked and admitted: runGuarded and fn() up to the
\* first await of a fetch, or to completion
TwinInvoke ==
    /\ pc \in {"idle", "done"}
    /\ invocations < MaxInvocations
    /\ \E raw \in TwinCommands, delay \in TwinIdleDelays :
       LET input == Input(NoArgs, raw, "none")
           parsed == ParsedInput(input)
           direct == Input(DirectArgs(parsed), <<>>, "none")
       IN
       \E suffix \in SuffixesFor(EffectiveArgs("orbio_command", input)) :
          LET t == now + delay
              admission == check(events, LimiterKey(cfg.workspaceId, "orbio_command"),
                                 cfg.maxRequestsPerMinute, t)
              inv == [tool |-> "orbio_command", input |-> input,
                      args |-> EffectiveArgs("orbio_command", input),
                      startedAt |-> t, admitted |-> TRUE, retryAfterSec |-> 0]
              other == [tool |-> DirectTool(parsed), input |-> direct,
                        args |-> EffectiveArgs(DirectTool(parsed), direct),
                        startedAt |-> t, admitted |-> TRUE, retryAfterSec |-> 0]
              h == Begin("orbio_command", input, capabilitiesCache, t, suffix)
              g == Begin(other.tool, direct, twin.run.capabilitiesCache, t, suffix)
              fresh == [pc |-> "idle", outcome |-> NoOutcome, sel |-> NoSelection,
                        capabilitiesCache |-> capabilitiesCache]
                       @@ NoRequestState(timers, <<>>)
              freshTwin == [pc |-> "idle", outcome |-> NoOutcome, sel |-> NoSelection,
                            capabilitiesCache |-> twin.run.capabilitiesCache]
                           @@ NoRequestState(twin.run.timers, <<>>)
          IN  /\ parsed.action # "error"
              /\ admission.ok
              /\ now' = t
              /\ events' = admission.events
              /\ call' = inv
              /\ capsFrom' = [src |-> h.caps, at |-> t, cache |-> capabilitiesCache]
              /\ Assign(RunOn(Enter(fresh, h, cfg, t), inv, cfg, suffix, t))
              /\ twin' = [call |-> other,
                          run |-> RunOn(Enter(freshTwin, g, cfg, t), other, cfg, suffix, t)]
    /\ invocations' = invocations + 1
    /\ UNCHANGED <<startupVars, parserVars, textVars, cfg, checkLog, exportLog>>

\* both fetches resolve with the same response before the timeout
TwinFetchRespond ==
    /\ rpc = "fetching"
    /\ twin.run.rpc = "fetching"
    /\ \E response \in TwinResponses(req.kind), suffix \in SuffixesFor(call.args) :
          LET out == ResponseOutcome(response)
          IN  /\ Assign(RunOn(AfterFetch(Current, out, cfg, now, ClearTimeout(timers)),
                              call, cfg, suffix, now))
              /\ twin' = [twin EXCEPT !.run =
                              RunOn(AfterFetch(@, out, cfg, now, ClearTimeout(@.timers)),
                                    twin.call, cfg, suffix, now)]
    /\ UNCHANGED <<startupVars, parserVars, textVars, cfg, now, limiterVars, invocations,
                   call, capsFrom, exportLog>>

\* both backoff sleeps resolve
TwinSleepWake ==
    /\ rpc = "sleeping"
    /\ twin.run.rpc = "sleeping"
    /\ \E timer \in timers, suffix \in SuffixesFor(call.args) :
          /\ timer.kind = "sleep"
          /\ now' = Max(now, timer.at)
          /\ Assign(RunOn(AfterSleep(Current, cfg, Max(now, timer.at), timers \ {timer}),
                          call, cfg, suffix, Max(now, timer.at)))
          /\ twin' = [twin EXCEPT !.run =
                          RunOn(AfterSleep(@, cfg, Max(now, timer.at), @.timers \ {timer}),
                                twin.call, cfg, suffix, Max(now, timer.at))]
    /\ UNCHANGED <<startupVars, parserVars, textVars, cfg, limiterVars, invocations, call,
                   capsFrom, exportLog>>

NextTwin == TwinInvoke \/ TwinFetchRespond \/ TwinSleepWake

SpecTwin == InitTwin /\ [][NextTwin]_vars

(***************************************************************************)
(* C24: orbio_command behaves as the direct tool with the parsed arguments  *)
(***************************************************************************)
\* method, path and body of each fetch call made so far
RequestsSent(calls) ==
    [i \in 1..Len(calls) |->
        [method |-> calls[i].method, path |-> calls[i].path, body |-> calls[i].body]]

\* C24: for a command that parses and is admitted, orbio_command has sent the
\* same sequence of HTTP requests (method, path, body) and returned the same
\* text as the corresponding direct tool invoked with the parsed arguments
\* from the same cache state and given the same API responses; both are at
\* the same point of their handlers, with the same cache
C24_CommandEqualsDirectTool ==
    call.tool = "orbio_command" =>
        /\ twin.call.tool \in Tools \ {"orbio_command"}
        /\ RequestsSent(sent) = RequestsSent(twin.run.sent)
        /\ pc = twin.run.pc
        /\ rpc = twin.run.rpc
        /\ outcome = twin.run.outcome
        /\ capabilitiesCache = twin.run.capabilitiesCache

\* an export command with --format html went through the capabilities fetch
\* and the export request on both instances, and both returned the same text
C24_Witness ==
    /\ call.tool = "orbio_command"
    /\ call.input.raw = <<"export", " ", "saas", " ", "--format", " ", "html">>
    /\ twin.call.tool = "orbio_export"
    /\ twin.call.input.args.format = "html"
    /\ pc = "done"
    /\ Len(sent) = 2
    /\ sent[2].body.output.format = "html"
    /\ outcome.delivered = "returned"
    /\ outcome = twin.run.outcome


(***************************************************************************)
(* The request bodies on their own: doSearch and doExport from the          *)
(* capabilities to their call of http.request, for limits of every kind     *)
(***************************************************************************)
\* limits a caller supplies: none, negative, zero, fractional, in range, at
\* and beyond the maximum
LimitsOfModel ==
    { Undefined, Num10(-30), Num10(0), Num10(5), Num10(10), Num10(25), Num10(200),
      Num10(499999), Num10(500000), Num10(500005), Num10(500010), Num10(9999990) }

LimitArgs ==
    { ToolArgs(kind, q, l, wc, NULL, "")
      : kind \in {"search", "export"}, q \in {"saas", "b2b"}, l \in LimitsOfModel,
        wc \in BOOLEAN }

InitLimit == \E raw \in ExportRawConfigs : InitWith(Api(raw, NoEnv))

\* doSearch(args) or doExport(args) builds its request
BuildRequest ==
    /\ exportLog = <<>>
    /\ \E args \in LimitArgs, caps \in ExportCapabilities, suffix \in Suffixes :
          LET h == WithCapabilities(args, caps, suffix)
          IN  /\ h.pc = "main"
              /\ exportLog' = <<[args |-> args, method |-> h.req.method,
                                 path |-> h.req.path, body |-> h.req.body,
                                 idempotencyKey |-> h.req.idempotencyKey]>>
    /\ UNCHANGED <<startupVars, parserVars, textVars, twin, cfg, now, limiterVars,
                   handlerVars, sent, requestVars>>

NextLimit == BuildRequest

SpecLimit == InitLimit /\ [][NextLimit]_vars

(***************************************************************************)
(* C25: the limit of search and export request bodies                       *)
(***************************************************************************)
\* n is Math.floor of the number whose tenths are v10
IsFloorOf(n, v10) == n * 10 <= v10 /\ v10 < (n + 1) * 10

\* C25: the limit in every search and export request body is an integer in
\* 1..50000: 20 when no limit was supplied, else the floor of the supplied
\* limit, raised to 1 or lowered to 50000 when the floor is outside the range
C25_BodyLimitIsClamped ==
    \A i \in 1..Len(exportLog) :
        LET supplied == exportLog[i].args.limit
            limit == exportLog[i].body.limit
        IN  /\ limit \in 1..50000
            /\ supplied = Undefined => limit = 20
            /\ supplied # Undefined =>
                  \/ IsFloorOf(limit, supplied.v10)
                  \/ limit = 1 /\ supplied.v10 < 10
                  \/ limit = 50000 /\ supplied.v10 >= 500000

\* a search was built with limit 50000.5 and its body carries 50000
C25_Witness ==
    /\ Len(exportLog) = 1
    /\ exportLog[1].args.kind = "search"
    /\ exportLog[1].path = "/v1/accounts/search"
    /\ exportLog[1].args.limit = Num10(500005)
    /\ exportLog[1].body.limit = 50000


(***************************************************************************)
(* parseTokens on its own: every string of up to MaxSymbols characters      *)
(***************************************************************************)
\* how long the strings handed to the tokenizer get
MaxSymbols == 5

TokenSymbols == {"a", "b", " ", DQUOTE, SQUOTE}

TokenInputs ==
    UNION { [1..n -> TokenSymbols] : n \in 0..MaxSymbols }

\* parseTokens(raw) is called once; parseResult holds what it returned
Tokenize ==
    /\ parseResult = NoParse
    /\ \E raw \in TokenInputs :
          /\ parseInput' = [words |-> <<>>, raw |-> raw]
          /\ parseResult' = [action |-> "tokens", tokens |-> parseTokens(raw)]
    /\ UNCHANGED <<startupVars, textVars, twin, cfg, now, limiterVars, handlerVars, sent,
                   exportLog, requestVars>>

NextTokens == Tokenize

SpecTokens == InitParser /\ [][NextTokens]_vars

(***************************************************************************)
(* C26: the tokenizer                                                       *)
(***************************************************************************)
\* the tokenizer as described, character by character: white space ends the
\* word in progress; a quote that has a matching quote later on ends the word
\* in progress and makes the span between the two quotes a token of its own;
\* any other character joins the word in progress. anywhere says that such a
\* quote opens a span wherever it stands (else only where no word is in
\* progress), keepEmpty that a span without content is a token too
RECURSIVE SplitAsDescribed(_, _, _, _, _, _)
SplitAsDescribed(raw, p, word, out, anywhere, keepEmpty) ==
    LET flushed == IF word = <<>> THEN out ELSE Append(out, Str(word))
    IN  IF p > Len(raw) THEN flushed
        ELSE IF IsSpace(raw[p])
        THEN SplitAsDescribed(raw, p + 1, <<>>, flushed, anywhere, keepEmpty)
        ELSE IF /\ raw[p] \in {DQUOTE, SQUOTE}
                /\ \E c \in (p + 1)..Len(raw) : raw[c] = raw[p]
                /\ anywhere \/ word = <<>>
        THEN LET close == CHOOSE c \in (p + 1)..Len(raw) :
                              /\ raw[c] = raw[p]
                              /\ \A d \in (p + 1)..(c - 1) : raw[d] # raw[p]
                 span == SubSeq(raw, p + 1, close - 1)
             IN  SplitAsDescribed(raw, close + 1, <<>>,
                                  IF span # <<>> \/ keepEmpty
                                  THEN Append(flushed, Str(span)) ELSE flushed,
                                  anywhere, keepEmpty)
        ELSE SplitAsDescribed(raw, p + 1, Append(word, raw[p]), out, anywhere, keepEmpty)

\* C26 as stated: the tokens are the pieces between white space, except that
\* every span enclosed in double or in single quotes is one token, with the
\* quotes removed and the content (white space included) preserved, in input
\* order
C26_TokensAsDescribed ==
    parseResult.action = "tokens" =>
        parseResult.tokens = SplitAsDescribed(parseInput.raw, 1, <<>>, <<>>, TRUE, TRUE)

\* C26, amended: the same, where a quote opens a span only if it stands where
\* a token starts (at the start of the input, after white space, or right
\* after a quoted span) and has a matching quote later on, and where a quoted
\* span without content yields no token; any other quote is an ordinary
\* character of the piece it stands in
C26_TokensAsDescribedAtTokenStart ==
    parseResult.action = "tokens" =>
        parseResult.tokens = SplitAsDescribed(parseInput.raw, 1, <<>>, <<>>, FALSE, FALSE)

\* "a b" between double quotes was tokenized: one token, a b, with the blank
\* inside and without the quotes
C26_Witness ==
    /\ parseInput.raw = <<DQUOTE, "a", " ", "b", DQUOTE>>
    /\ parseResult.action = "tokens"
    /\ parseResult.tokens = <<"a b">>


(***************************************************************************)
(* C27: the retry hint of a rejected check                                  *)
(***************************************************************************)
\* check j is the first check of check i's key after check i
NextOfKey(i, j) ==
    /\ i < j
    /\ checkLog[j].key = checkLog[i].key
    /\ \A m \in (i + 1)..(j - 1) : checkLog[m].key # checkLog[i].key

\* C27: when check(key, L) was rejected at time t with retryAfterSeconds = r,
\* the next check of that key, made at any time >= t + r * 1000 ms (that
\* instant included), succeeds
C27_RetryAfterHintIsSufficient ==
    \A i, j \in 1..Len(checkLog) :
        (/\ NextOfKey(i, j)
         /\ ~checkLog[i].ok
         /\ checkLog[j].at >= checkLog[i].at + checkLog[i].retryAfterSec * 1000)
        => checkLog[j].ok

\* the same for a next check made later than t + r * 1000 ms
C27_RetryAfterHintIsSufficientLater ==
    \A i, j \in 1..Len(checkLog) :
        (/\ NextOfKey(i, j)
         /\ ~checkLog[i].ok
         /\ checkLog[j].at > checkLog[i].at + checkLog[i].retryAfterSec * 1000)
        => checkLog[j].ok

\* a check was rejected and the key's next check came at the hinted instant
C27_Witness ==
    \E i, j \in 1..Len(checkLog) :
        /\ NextOfKey(i, j)
        /\ ~checkLog[i].ok
        /\ checkLog[j].at = checkLog[i].at + checkLog[i].retryAfterSec * 1000


(***************************************************************************)
(* C30: what the limiter stores for a key                                   *)
(***************************************************************************)
\* C30: immediately after every check(key, L), accepted or rejected, the
\* sequence stored for key is in non-decreasing time order, has at most L
\* entries, and holds no timestamp older than now - 60000 ms
C30_StoredSequenceIsPrunedSortedWindow ==
    \A j \in 1..Len(checkLog) :
        LET stored == checkLog[j].stored[checkLog[j].key]
        IN  /\ \A a, b \in 1..Len(stored) : a <= b => stored[a] <= stored[b]
            /\ Len(stored) <= cfg.maxRequestsPerMinute
            /\ \A a \in 1..Len(stored) : stored[a] >= checkLog[j].at - WINDOW_MS

\* with limit 2, a check was accepted more than 60 seconds after an accepted
\* check of its key, whose timestamp it pruned, and a later check of the key
\* was rejected with two timestamps stored
C30_Witness ==
    /\ cfg.maxRequestsPerMinute = 2
    /\ \E i, j, m \in 1..Len(checkLog) :
          /\ i < j /\ j < m
          /\ checkLog[j].key = checkLog[i].key /\ checkLog[m].key = checkLog[i].key
          /\ checkLog[i].ok /\ checkLog[j].ok /\ ~checkLog[m].ok
          /\ checkLog[i].at < checkLog[j].at - WINDOW_MS
          /\ checkLog[i].at \notin Range(checkLog[j].stored[checkLog[j].key])
          /\ Len(checkLog[m].stored[checkLog[m].key]) = 2


(***************************************************************************)
(* Overlapping invocations on one plugin instance: two handlers, a in the   *)
(* handler and request() variables and b in twin, share the limiter and the *)
(* capabilities cache and interleave at their awaits                        *)
(***************************************************************************)
Slots == {"a", "b"}

\* the handler and request() variables of a slot; the cache is the one closure
\* variable of the instance
SlotState(s) ==
    IF s = "a" THEN Current ELSE [twin.run EXCEPT !.capabilitiesCache = capabilitiesCache]
SlotCall(s) == IF s = "a" THEN call ELSE twin.call

\* slot s goes on as st with invocation inv; the other slot keeps its place
\* and sees the cache st leaves
Put(s, st, inv) ==
    IF s = "a"
    THEN /\ Assign(st)
         /\ call' = inv
         /\ twin' = [twin EXCEPT !.run.capabilitiesCache = st.capabilitiesCache]
    ELSE /\ twin' = [call |-> inv, run |-> st]
         /\ capabilitiesCache' = st.capabilitiesCache
         /\ UNCHANGED <<call, pc, outcome, sel, sent, requestVars>>

OverlapRawConfigs ==
    { RawConfig(Num10(10), Num10(10 * l), Num10(300000), Num10(300000), Num10(6000000))
      : l \in 1..MaxLimit }

OverlapInputs ==
    { Input(ToolArgs("search", "saas", Undefined, FALSE, NULL, ""), <<>>, "none") }

\* how long after the last step the host makes an invocation
OverlapDelays == {0, 30000}

\* the answers of the API in this specification: a 200 and the 503 of each
\* endpoint
OverlapResponses(kind) ==
    { r \in TwinResponses(kind) :
        r.status = 200 =>
            /\ kind = "capabilities" => Cardinality(r.body.value.field_allowlist) = 2
            /\ kind = "search" => Len(r.body.value.accounts) = 1 }

InitOverlap == \E raw \in OverlapRawConfigs : InitWith(Api(raw, NoEnv))

\* orbio_search is invoked, whatever the invocations in progress are doing:
\* runGuarded's limiter.check and fn() up to the first await of a fetch, or to
\* completion. The invocation takes slot a when no invocation is in progress
\* there, else slot b
OverlapInvoke ==
    /\ invocations < MaxInvocations
    /\ \E s \in Slots, input \in OverlapInputs, delay \in OverlapDelays :
          LET tool == "orbio_search"
              t == now + delay
              key == LimiterKey(cfg.workspaceId, tool)
              admission == check(events, key, cfg.maxRequestsPerMinute, t)
              h == IF admission.ok
                   THEN Begin(tool, input, capabilitiesCache, t, NoSuffix)
                   ELSE Finish(runGuardedCatch(PluginRateLimitError(admission.retryAfterSec)))
              inv == [tool |-> tool, input |-> input,
                      args |-> IF admission.ok THEN EffectiveArgs(tool, input) ELSE NoArgs,
                      startedAt |-> t, admitted |-> admission.ok,
                      retryAfterSec |-> admission.retryAfterSec]
              fresh == [pc |-> "idle", outcome |-> NoOutcome, sel |-> NoSelection,
                        capabilitiesCache |-> capabilitiesCache]
                       @@ NoRequestState(SlotState(s).timers, <<>>)
          IN  /\ SlotState(s).pc \in {"idle", "done"}
              /\ s = "b" => pc \notin {"idle", "done"}
              /\ now' = t
              /\ events' = admission.events
              /\ checkLog' = Append(checkLog,
                                    [key |-> key, at |-> t, ok |-> admission.ok,
                                     retryAfterSec |-> admission.retryAfterSec,
                                     stored |-> admission.events])
              /\ Put(s, RunOn(Enter(fresh, h, cfg, t), inv, cfg, NoSuffix, t), inv)
    /\ invocations' = invocations + 1
    /\ UNCHANGED <<startupVars, parserVars, textVars, cfg, capsFrom, exportLog>>

\* the fetch a slot awaits resolves with a response before the timeout
OverlapRespond ==
    /\ \E s \in Slots :
          /\ SlotState(s).rpc = "fetching"
          /\ \E response \in OverlapResponses(SlotState(s).req.kind) :
                Put(s, RunOn(AfterFetch(SlotState(s), ResponseOutcome(response), cfg, now,
                                        ClearTimeout(SlotState(s).timers)),
                             SlotCall(s), cfg, NoSuffix, now),
                    SlotCall(s))
    /\ UNCHANGED <<startupVars, parserVars, textVars, cfg, now, limiterVars, invocations,
                   capsFrom, exportLog>>

\* the backoff sleep a slot awaits resolves
OverlapSleepWake ==
    /\ \E s \in Slots :
          /\ SlotState(s).rpc = "sleeping"
          /\ \E timer \in SlotState(s).timers :
                /\ timer.kind = "sleep"
                /\ now' = Max(now, timer.at)
                /\ Put(s, RunOn(AfterSleep(SlotState(s), cfg, Max(now, timer.at),
                                           SlotState(s).timers \ {timer}),
                                SlotCall(s), cfg, NoSuffix, Max(now, timer.at)),
                       SlotCall(s))
    /\ UNCHANGED <<startupVars, parserVars, textVars, cfg, limiterVars, invocations,
                   capsFrom, exportLog>>

NextOverlap == OverlapInvoke \/ OverlapRespond \/ OverlapSleepWake

SpecOverlap == InitOverlap /\ [][NextOverlap]_vars

(***************************************************************************)
(* C28: capabilities requests of overlapping invocations                    *)
(***************************************************************************)
\* the slot's invocation has a capabilities request under way: its fetch is
\* in flight, or it sleeps before the retry
Refreshing(s) ==
    /\ SlotState(s).pc = "caps"
    /\ SlotState(s).rpc \in {"fetching", "sleeping"}

CapabilitiesInFlight(s) ==
    /\ SlotState(s).pc = "caps"
    /\ SlotState(s).rpc = "fetching"

\* C28: at most one capabilities request is in flight at any time: an
\* invocation that found the cache absent or stale while the other
\* invocation's refresh was in progress did not start a second fetch
C28_OneCapabilitiesRequestInFlight ==
    /\ ~(CapabilitiesInFlight("a") /\ CapabilitiesInFlight("b"))
    /\ ~(Refreshing("a") /\ Refreshing("b"))


\* both invocations found the cache absent and each has its own capabilities
\* fetch in flight
C28_Witness ==
    /\ CapabilitiesInFlight("a")
    /\ CapabilitiesInFlight("b")
    /\ ~capabilitiesCache.present
    /\ sent[1].path = "/v1/capabilities"
    /\ twin.run.sent[1].path = "/v1/capabilities"

(***************************************************************************)
(* C29: the limiter under overlapping invocations                           *)
(***************************************************************************)
\* C29: in every interleaving of overlapping invocations, at most L
\* invocations of a key are admitted within any 60-second window: each
\* limiter check sees every earlier admission, since its
\* read-prune-compare-append has no suspension point inside
C29_OverlapAdmitsAtMostLimitPerWindow ==
    \A j \in 1..Len(checkLog) :
        /\ Cardinality(AdmittedBefore(j)) + (IF checkLog[j].ok THEN 1 ELSE 0)
              <= cfg.maxRequestsPerMinute
        /\ checkLog[j].ok <=> Cardinality(AdmittedBefore(j)) < cfg.maxRequestsPerMinute

\* with limit 1, an invocation was rejected by the limiter while the one
\* admitted before it was still awaiting its fetch
C29_Witness ==
    /\ cfg.maxRequestsPerMinute = 1
    /\ Len(checkLog) = 2
    /\ checkLog[1].ok
    /\ ~checkLog[2].ok
    /\ pc \in {"caps", "main"}
    /\ rpc = "fetching"
    /\ call.admitted
    /\ twin.run.pc = "done"
    /\ ~twin.call.admitted


(***************************************************************************)
(* C31: the Idempotency-Key of an export's attempts                         *)
(***************************************************************************)
\* the attempts of the invocation in progress that went to POST /v1/exports
ExportAttempts == { i \in 1..Len(sent) : sent[i].kind = "export" }

\* C31: all attempts request() makes for one export invocation carry the same
\* Idempotency-Key header value, the one doExport computed from the request
\* body before the first attempt; no retry regenerates it
C31_AttemptsShareIdempotencyKey ==
    \A i \in ExportAttempts :
        /\ \A j \in ExportAttempts : sent[j].idempotencyKey = sent[i].idempotencyKey
        /\ sent[i].idempotencyKey.digest
              = Sha256Hex(Stringify(sent[i].body), DIGEST_HEX_CHARS)
        /\ sent[i].idempotencyKey = req.idempotencyKey

\* an export was answered with a 503, slept, and was sent again with the key
\* of the first attempt
C31_Witness ==
    /\ Cardinality(ExportAttempts) = 2
    /\ \E i, j \in ExportAttempts :
          /\ sent[i].attempt = 0
          /\ sent[j].attempt = 1
          /\ sent[j].at > sent[i].at
          /\ sent[j].idempotencyKey = sent[i].idempotencyKey
          /\ sent[i].idempotencyKey.suffix \in Suffixes


(***************************************************************************)
(* C32: the fallback after the retry loop                                   *)
(***************************************************************************)
\* C32: request() never reaches the throw after its loop: whatever retryCount
\* readConfig produced and however the attempts ended, it returned or raised
\* from inside the loop, so no error carries the code RETRY_EXHAUSTED
C32_RetryExhaustedUnreachable ==
    /\ cfg.retryCount \in 0..MAX_RETRY_COUNT
    /\ reqResult.error # RETRY_EXHAUSTED_ERROR
    /\ RequestOver =>
          /\ Len(outcomes) >= 1
          /\ rpc = "thrown" =>
                /\ reqResult.error.type = "OrbioApiError"
                /\ reqResult.error.code # "RETRY_EXHAUSTED"

\* with retryCount 0 the only attempt timed out and request() raised TIMEOUT
\* from inside the loop
C32_Witness ==
    /\ cfg.retryCount = 0
    /\ rpc = "thrown"
    /\ fetches = 1
    /\ Len(outcomes) = 1
    /\ EndedAs(outcomes[1]) = "timeout"
    /\ reqResult.error.code = "TIMEOUT"


(***************************************************************************)
(* C33: the backoff before each retry                                       *)
(***************************************************************************)
\* C33: the delay that follows failed attempt i (counted from 1) is
\* retryBackoffMs * i, and attempt i + 1 is sent no earlier than that long
\* after attempt i settled; the first attempt is sent when request() is
\* called, and no delay follows the attempt request() ends with
C33_BackoffGrowsWithAttempt ==
    /\ \A i \in 1..Len(sleeps) :
          /\ i <= cfg.retryCount
          /\ sleeps[i] = cfg.retryBackoffMs * i
          /\ i + 1 <= Len(sent) => sent[i + 1].at >= sent[i].settledAt + sleeps[i]
    /\ Len(sent) >= 1 => sent[1].at = 0
    /\ Len(sleeps) = IF rpc = "sleeping" THEN fetches
                     ELSE IF fetches = 0 THEN 0 ELSE fetches - 1
    /\ RequestOver =>
          /\ now = sent[Len(sent)].settledAt
          /\ \A timer \in timers : timer.kind # "sleep"

\* with retryCount 3, three attempts failed transiently and the fourth was
\* sent after delays of one, two and three times retryBackoffMs
C33_Witness ==
    /\ cfg.retryCount = 3
    /\ fetches = 4
    /\ sleeps = <<cfg.retryBackoffMs, cfg.retryBackoffMs * 2, cfg.retryBackoffMs * 3>>
    /\ sent[4].at >= sent[3].settledAt + cfg.retryBackoffMs * 3
    /\ RequestOver


(***************************************************************************)
(* C34: what a check changes                                                *)
(***************************************************************************)
\* the stored sequences before check j: what the check before it left, the
\* empty map before the first
StoredBefore(j) == IF j = 1 THEN [k \in Keys |-> <<>>] ELSE checkLog[j - 1].stored

\* the entries of a sequence that are at most 60000 ms old at time t
InWindow(stored, t) == SelectSeq(stored, LAMBDA ts : t - ts <= 60000)

\* C34: a rejected check leaves the sequences of all keys unchanged; a
\* successful check(key, L) replaces key's sequence by its pruned entries
\* followed by the current timestamp and leaves every other key's sequence
\* unchanged; whether a check is rejected depends on its own key's sequence
\* only
C34_CheckChangesOwnKeyOnly ==
    \A j \in 1..Len(checkLog) :
        LET before == StoredBefore(j)
            after == checkLog[j].stored
            key == checkLog[j].key
            pruned == InWindow(before[key], checkLog[j].at)
        IN  /\ ~checkLog[j].ok => after = before
            /\ checkLog[j].ok =>
                  /\ after[key] = Append(pruned, checkLog[j].at)
                  /\ \A k \in Keys \ {key} : after[k] = before[k]
            /\ checkLog[j].ok <=> Len(pruned) < cfg.maxRequestsPerMinute
            /\ events = checkLog[Len(checkLog)].stored

\* with limit 1, a key was exhausted (a check of it rejected) and the next
\* check, of the other key at the same instant, succeeded
C34_Witness ==
    /\ cfg.maxRequestsPerMinute = 1
    /\ \E j \in 2..Len(checkLog) :
          /\ ~checkLog[j - 1].ok
          /\ checkLog[j].ok
          /\ checkLog[j].key # checkLog[j - 1].key
          /\ checkLog[j].at = checkLog[j - 1].at
          /\ checkLog[j].stored[checkLog[j - 1].key] = StoredBefore(j - 1)[checkLog[j - 1].key]
          /\ Len(checkLog[j].stored[checkLog[j - 1].key]) = 1


(***************************************************************************)
(* C35: the retry hint's value                                              *)
(***************************************************************************)
\* the earliest of the timestamps of a non-empty sequence
Earliest(stored) == CHOOSE ts \in Range(stored) : \A other \in Range(stored) : ts <= other

\* r is Math.ceil(ms / 1000)
IsCeilOfSeconds(r, ms) == (r - 1) * 1000 < ms /\ ms <= r * 1000

\* C35: on rejection, retryAfterSeconds is ceil(max(1, 60000 - (now -
\* oldestKeptTimestamp)) / 1000), where oldestKeptTimestamp is the earliest
\* timestamp kept in the window, and it is an integer in 1..60
C35_RetryAfterSecondsValue ==
    \A j \in 1..Len(checkLog) :
        ~checkLog[j].ok =>
            LET kept == InWindow(StoredBefore(j)[checkLog[j].key], checkLog[j].at)
                remaining == 60000 - (checkLog[j].at - Earliest(kept))
            IN  /\ kept # <<>>
                /\ IsCeilOfSeconds(checkLog[j].retryAfterSec, Max(1, remaining))
                /\ checkLog[j].retryAfterSec \in 1..60

\* a check was rejected 29999 ms after the admission it collides with: 30001
\* ms remain and the hint is 31 s; another was rejected with the oldest
\* timestamp exactly 60000 ms old: the hint is 1 s
C35_Witness ==
    \E i, j \in 1..Len(checkLog) :
        /\ ~checkLog[i].ok /\ checkLog[i].retryAfterSec = 31
        /\ checkLog[i].at = 30000
        /\ ~checkLog[j].ok /\ checkLog[j].retryAfterSec = 1

(***************************************************************************)
(* C36: the code and detail of the error raised for an error response       *)
(***************************************************************************)
IsStringValue(value) == value.t = "string"

\* C36: for every error response body, the code of the raised error is the
\* nested error.code when that is a string, else the top-level code, else
\* null; its detail is the nested error.message when that is a string, else
\* the top-level detail, else "Orbio API returned an error.", which is also
\* the detail when the body is empty or is not a JSON object.
C36_ProblemCodeAndDetail ==
    (failure # NoFailure /\ failure.response.status # 0) =>
        LET body == failure.response.body
            isObject == body.raw = "json" /\ body.value.t = "object"
            top == IF isObject THEN body.value ELSE EmptyObject
            error == Get(top, "error", Undefined)
            nested == IF error.t = "object" THEN error ELSE EmptyObject
            nestedCode == Get(nested, "code", Undefined)
            nestedMessage == Get(nested, "message", Undefined)
            topCode == Get(top, "code", Undefined)
            topDetail == Get(top, "detail", Undefined)
        IN  /\ failure.error.type = "OrbioApiError"
            /\ failure.error.status = failure.response.status
            /\ failure.error.code =
                  IF IsStringValue(nestedCode) THEN nestedCode.s
                  ELSE IF IsStringValue(topCode) THEN topCode.s
                  ELSE NULL
            /\ failure.error.detail =
                  IF IsStringValue(nestedMessage) THEN nestedMessage.s
                  ELSE IF IsStringValue(topDetail) THEN topDetail.s
                  ELSE "Orbio API returned an error."
            /\ ~isObject => /\ failure.error.code = NULL
                            /\ failure.error.detail = "Orbio API returned an error."

\* a body whose nested error has a code but no message, with a top-level code
\* and detail: the error carries the nested code and the top-level detail
C36_Witness ==
    /\ failure # NoFailure
    /\ failure.response.body =
          JsonBody([t |-> "object", code |-> StringValue("top"),
                    detail |-> StringValue("fallback detail"),
                    error |-> [t |-> "object", code |-> StringValue("nested")]])
    /\ failure.error.code = "nested"
    /\ failure.error.detail = "fallback detail"

(***************************************************************************)
(* C37: no timer outlives the invocation that created it                    *)
(***************************************************************************)
TimeoutTimers == {timer \in timers : timer.kind = "timeout"}
SleepTimers == {timer \in timers : timer.kind = "sleep"}

\* C37: whenever no tool invocation is in progress, no timer is pending.
\* While a fetch is in flight the only pending timer is that attempt's
\* timeout timer; once the fetch has settled no timeout timer is pending,
\* so during a backoff the only pending timer is the backoff delay; and
\* when request() has returned or raised no timer is pending at all.
C37_NoTimerOutsideInvocation ==
    /\ pc \in {"idle", "done"} => timers = {}
    /\ rpc = "fetching" =>
          timers = {[kind |-> "timeout", at |-> sent[Len(sent)].at + cfg.timeoutMs]}
    /\ rpc = "sleeping" =>
          /\ TimeoutTimers = {}
          /\ SleepTimers = {[kind |-> "sleep",
                             at |-> sent[Len(sent)].settledAt + sleeps[Len(sleeps)]]}
    /\ rpc \in {"none", "returned", "thrown"} => timers = {}

\* an invocation is over whose request was answered before its timeout after
\* a backoff: the timers of both attempts and of the backoff are gone
C37_Witness ==
    /\ pc = "done"
    /\ timers = {}
    /\ sleeps # <<>>
    /\ fetches >= 2
    /\ outcomes[Len(outcomes)].kind = "response"
    /\ now < sent[Len(sent)].at + cfg.timeoutMs

(***************************************************************************)
(* One invocation followed to its end, with the body of a response read     *)
(* as a step of its own: await fetch(...) resolves when the status and the  *)
(* headers have arrived, and parseJsonSafe awaits response.text()           *)
(***************************************************************************)
\* whether request() reads the body of response at attempt att: not for a
\* 204, nor for a 5xx that is retried
ReadsBody(response, c, att) ==
    /\ ~(IsOk(response) /\ response.status = 204)
    /\ ~(~IsOk(response) /\ RetriesStatus(response, c, att))

InitLive == Init

\* the host invokes one tool
LiveInvoke ==
    /\ invocations = 0
    /\ Invoke

\* fetch resolves with a response whose body request() goes on to read:
\* clearTimeout(timeout), then await response.text()
LiveHeaders ==
    /\ rpc = "fetching"
    /\ \E response \in Responses(req.kind) : ReadsBody(response, cfg, attempt)
    /\ rpc' = "reading"
    /\ timers' = ClearTimeout(timers)
    /\ UNCHANGED <<startupVars, parserVars, textVars, twin, cfg, now, limiterVars,
                   invocations, pc, call, capsFrom, sel, outcome, capabilitiesCache,
                   sent, exportLog, req, attempt, fetches, sleeps, outcomes, reqResult>>

\* response.text() settles: the rest of the loop body.  Nothing reads the
\* status or the headers before, so the response is drawn here
LiveBody ==
    /\ rpc = "reading"
    /\ \E response \in Responses(req.kind) :
          /\ ReadsBody(response, cfg, attempt)
          /\ Settle(ResponseOutcome(response), now, timers)

\* fetch resolves with a response whose body request() does not read
LiveRespondUnread ==
    /\ rpc = "fetching"
    /\ \E response \in Responses(req.kind) :
          /\ ~ReadsBody(response, cfg, attempt)
          /\ Settle(ResponseOutcome(response), now, ClearTimeout(timers))

NextLive ==
    \/ LiveInvoke
    \/ LiveHeaders
    \/ LiveBody
    \/ LiveRespondUnread
    \/ FetchReject
    \/ FetchTimeout
    \/ SleepWake

\* a fetch in flight settles or its timeout timer fires, and a backoff timer
\* fires; nothing makes a body arrive
SpecLive ==
    /\ InitLive
    /\ [][NextLive]_vars
    /\ WF_vars(FetchTimeout)
    /\ WF_vars(SleepWake)

\* the same with every body read settling
SpecLiveBodiesArrive == SpecLive /\ WF_vars(LiveBody)

(***************************************************************************)
(* C38: every invocation eventually returns a result                        *)
(***************************************************************************)
InvocationInProgress == pc \notin {"idle", "done"}

\* C38: every tool invocation eventually returns a result: given that each
\* fetch settles or is aborted by its timeout and that timers fire, request()
\* ends after at most retryCount + 1 attempts and the handler completes with
\* a text block.
C38_EveryInvocationReturns ==
    /\ [](attempt <= cfg.retryCount)
    /\ InvocationInProgress ~>
          (pc = "done" /\ outcome.delivered = "returned"
                      /\ Len(outcome.result.content) = 1)

====
